---- MODULE Spec2Model ----
(***************************************************************************)
(* Front end of the Mirrow language: the scanner (lexer.c) and the Pratt   *)
(* parser (parser.c).  The source text is a sequence of characters ended   *)
(* by the terminating NUL; the scanner state is a cursor into it; the      *)
(* parser is the recursive-descent code of parser.c written as recursive   *)
(* operators that thread the parser state; one top-level action is one     *)
(* iteration of the loop of parse().                                       *)
(***************************************************************************)
EXTENDS Integers, Sequences, FiniteSets, TLC

VARIABLES source, pc, lexer, tok, eofReads, parser, program, printed

vars == <<source, pc, lexer, tok, eofReads, parser, program, printed>>

(***************************************************************************)
(* Bounds of the model.                                                    *)
(***************************************************************************)
MaxWords == 5
MaxArithWords == 5
MaxPipeWords == 5
MaxDelimWords == 4
MaxStrWords == 4
MaxEofReads == 2
MaxArms == 2
MaxMatchWords == 3
MaxPairs == 2
MaxStructWords == 3
MaxParams == 2
MaxBody == 2
MaxExprWords == 7
MaxFreeWords == 4
MaxLexChars == 4
MaxLetWords == 5
MaxBlockWords == 3
MaxUpdateWords == 5
MaxFewArgs == 2
MaxExtraArgs == 2

(***************************************************************************)
(* Characters.  A character is a one-character string; NUL is the          *)
(* terminator that read_file puts after the last character.                *)
(***************************************************************************)
NUL == "NUL"

Digits == {"0", "1", "2", "3", "4", "5", "6", "7", "8", "9"}

Letters ==
    {"a", "b", "c", "d", "e", "f", "g", "h", "i", "j", "k", "l", "m",
     "n", "o", "p", "q", "r", "s", "t", "u", "v", "w", "x", "y", "z",
     "A", "B", "C", "D", "E", "F", "G", "H", "I", "J", "K", "L", "M",
     "N", "O", "P", "Q", "R", "S", "T", "U", "V", "W", "X", "Y", "Z"}

\* the characters below 32 other than \n, \r, \t that the model draws from
ControlChars == {"\f"}

isalpha(c) == c \in Letters

isdigit(c) == c \in Digits

isalnum(c) == isalpha(c) \/ isdigit(c)

\* *p for a pointer p into the source buffer
CharAt(i) == IF i >= 1 /\ i <= Len(source) THEN source[i] ELSE NUL

(***************************************************************************)
(* Scanner.  A Lexer is [start, current, line]; start and current are      *)
(* 1-based offsets into source, Len(source) + 1 is the terminator.         *)
(***************************************************************************)
lexer_init == [start |-> 1, current |-> 1, line |-> 1]

is_at_end(lx) == CharAt(lx.current) = NUL

advance(lx) ==
    IF is_at_end(lx)
    THEN [c |-> NUL, lx |-> lx]
    ELSE [c |-> CharAt(lx.current), lx |-> [lx EXCEPT !.current = @ + 1]]

peek(lx) == IF is_at_end(lx) THEN NUL ELSE CharAt(lx.current)

peek_next(lx) == IF is_at_end(lx) THEN NUL ELSE CharAt(lx.current + 1)

RECURSIVE skip_whitespace(_)
skip_whitespace(lx) ==
    LET c == peek(lx) IN
    IF is_at_end(lx) THEN lx
    ELSE IF c = " " \/ c = "\r" \/ c = "\t"
         THEN skip_whitespace(advance(lx).lx)
    ELSE IF c = "\n"
         THEN skip_whitespace(advance([lx EXCEPT !.line = @ + 1]).lx)
    ELSE IF c \in ControlChars
         THEN skip_whitespace(advance(lx).lx)
    ELSE lx

\* a token holds its kind, its span in the source and the line; an error
\* token points at a message instead of the source (start = 0, msg set)
make_token(type, lx) ==
    [type |-> type, start |-> lx.start, length |-> lx.current - lx.start,
     line |-> lx.line, msg |-> ""]

StrLen(msg) ==
    CASE msg = "Unterminated string." -> 20
      [] msg = "Unexpected '&'." -> 15
      [] msg = "Unexpected character." -> 21
      [] OTHER -> 0

error_token(msg, lx) ==
    [type |-> "ERROR", start |-> 0, length |-> StrLen(msg),
     line |-> lx.line, msg |-> msg]

match(expected, lx) ==
    IF is_at_end(lx) THEN [ok |-> FALSE, lx |-> lx]
    ELSE IF CharAt(lx.current) # expected THEN [ok |-> FALSE, lx |-> lx]
    ELSE [ok |-> TRUE, lx |-> [lx EXCEPT !.current = @ + 1]]

Lexeme(lx) == SubSeq(source, lx.start, lx.current - 1)

KeywordType(w) ==
    CASE w = <<"l", "e", "t">> -> "LET"
      [] w = <<"f", "u", "n", "c">> -> "FUNC"
      [] w = <<"i", "f">> -> "IF"
      [] w = <<"e", "l", "s", "e">> -> "ELSE"
      [] w = <<"t", "r", "u", "e">> -> "TRUE"
      [] w = <<"f", "a", "l", "s", "e">> -> "FALSE"
      [] w = <<"m", "a", "t", "c", "h">> -> "MATCH"
      [] w = <<"f", "n">> -> "FN"
      [] w = <<"a", "s", "y", "n", "c">> -> "ASYNC"
      [] w = <<"a", "w", "a", "i", "t">> -> "AWAIT"
      [] w = <<"t", "h", "r", "o", "w">> -> "THROW"
      [] w = <<"t", "r", "y">> -> "TRY"
      [] w = <<"c", "a", "t", "c", "h">> -> "CATCH"
      [] w = <<"i", "m", "p", "o", "r", "t">> -> "IMPORT"
      [] OTHER -> "IDENTIFIER"

RECURSIVE identifier_loop(_)
identifier_loop(lx) ==
    IF isalnum(peek(lx)) \/ peek(lx) = "_"
    THEN identifier_loop(advance(lx).lx)
    ELSE lx

identifier(lx) ==
    LET l1 == identifier_loop(lx) IN
    [tok |-> make_token(KeywordType(Lexeme(l1)), l1), lx |-> l1]

RECURSIVE digits_loop(_)
digits_loop(lx) ==
    IF isdigit(peek(lx)) THEN digits_loop(advance(lx).lx) ELSE lx

\* number() taking the '.' whatever follows it
number_any_dot(lx) ==
    LET l1 == digits_loop(lx)
        l2 == IF peek(l1) = "." THEN digits_loop(advance(l1).lx) ELSE l1
    IN [tok |-> make_token("NUMBER", l2), lx |-> l2]

number(lx) ==
    LET l1 == digits_loop(lx)
        l2 == IF peek(l1) = "." /\ isdigit(peek_next(l1))
              THEN digits_loop(advance(l1).lx)
              ELSE l1
    IN [tok |-> make_token("NUMBER", l2), lx |-> l2]

\* the loop of string() without the count of the newlines it passes
RECURSIVE string_loop_uncounted(_)
string_loop_uncounted(lx) ==
    IF peek(lx) # "\"" /\ ~is_at_end(lx)
    THEN string_loop_uncounted(advance(lx).lx)
    ELSE lx

RECURSIVE string_loop(_)
string_loop(lx) ==
    IF peek(lx) # "\"" /\ ~is_at_end(lx)
    THEN string_loop(advance(IF peek(lx) = "\n"
                             THEN [lx EXCEPT !.line = @ + 1]
                             ELSE lx).lx)
    ELSE lx

\* string() without the end-of-input test of line 152
string_unchecked(lx) ==
    LET l1 == string_loop(lx)
        l2 == advance(l1).lx
    IN [tok |-> make_token("STRING", l2), lx |-> l2]

string(lx) ==
    LET l1 == string_loop(lx) IN
    IF is_at_end(l1)
    THEN [tok |-> error_token("Unterminated string.", l1), lx |-> l1]
    ELSE LET l2 == advance(l1).lx
         IN [tok |-> make_token("STRING", l2), lx |-> l2]

\* a line comment that ends right after its two slashes
line_comment_none(lx) == lx

RECURSIVE line_comment_loop(_)
line_comment_loop(lx) ==
    IF peek(lx) # "\n" /\ ~is_at_end(lx)
    THEN line_comment_loop(advance(lx).lx)
    ELSE lx

RECURSIVE block_comment_loop(_)
block_comment_loop(lx) ==
    IF ~(peek(lx) = "*" /\ peek_next(lx) = "/") /\ ~is_at_end(lx)
    THEN block_comment_loop(advance(IF peek(lx) = "\n"
                                    THEN [lx EXCEPT !.line = @ + 1]
                                    ELSE lx).lx)
    ELSE lx

Emit(type, lx) == [tok |-> make_token(type, lx), lx |-> lx]

\* "case X: if (match(second)) return two; return one;"
TwoChar(second, two, one, lx) ==
    LET m == match(second, lx) IN
    IF m.ok THEN Emit(two, m.lx) ELSE Emit(one, lx)

RECURSIVE lexer_next(_)

\* lexer_next from line 166 on: lx.start = lx.current, not at the end
scan_token(lx) ==
    LET a == advance(lx)
        c == a.c
        l == a.lx
    IN
    IF isalpha(c) \/ c = "_" THEN identifier(l)
    ELSE IF isdigit(c) THEN number(l)
    ELSE IF c = "\"" THEN string(l)
    ELSE CASE c = "(" -> Emit("LPAREN", l)
           [] c = ")" -> Emit("RPAREN", l)
           [] c = "{" -> Emit("LBRACE", l)
           [] c = "}" -> Emit("RBRACE", l)
           [] c = "=" -> TwoChar("=", "EQUAL_EQUAL", "EQUAL", l)
           [] c = "!" -> TwoChar("=", "BANG_EQUAL", "BANG", l)
           [] c = ">" -> TwoChar("=", "GREATER_EQUAL", "GREATER", l)
           [] c = "<" -> TwoChar("=", "LESS_EQUAL", "LESS", l)
           [] c = "+" -> Emit("PLUS", l)
           [] c = "-" -> TwoChar(">", "ARROW", "MINUS", l)
           [] c = "*" -> Emit("STAR", l)
           [] c = "/" ->
                LET m1 == match("/", l)
                    m2 == match("*", l)
                IN IF m1.ok THEN lexer_next(line_comment_loop(m1.lx))
                   ELSE IF m2.ok
                   THEN LET b == block_comment_loop(m2.lx)
                        IN lexer_next(IF ~is_at_end(b)
                                      THEN advance(advance(b).lx).lx
                                      ELSE b)
                   ELSE Emit("SLASH", l)
           [] c = "," -> Emit("COMMA", l)
           [] c = ";" -> Emit("SEMICOLON", l)
           [] c = ":" -> Emit("COLON", l)
           [] c = "." -> Emit("DOT", l)
           [] c = "[" -> Emit("LBRACKET", l)
           [] c = "]" -> Emit("RBRACKET", l)
           [] c = "&" ->
                LET m == match("&", l) IN
                IF m.ok THEN Emit("AND", m.lx)
                ELSE [tok |-> error_token("Unexpected '&'.", l), lx |-> l]
           [] c = "|" -> TwoChar("|", "OR", "PIPE", l)
           [] c = "?" -> Emit("QUESTION", l)
           [] c = "#" -> Emit("REFLECT", l)
           [] c = "$" -> Emit("DOLLAR", l)
           [] OTHER -> [tok |-> error_token("Unexpected character.", l),
                        lx |-> l]

\* a scanner that consumes the terminator when it emits end-of-input
lexer_next_past_end(lx) ==
    LET l1 == skip_whitespace(lx)
        l2 == [l1 EXCEPT !.start = l1.current]
    IN IF is_at_end(l2)
       THEN [tok |-> make_token("EOF", l2),
             lx |-> [l2 EXCEPT !.current = @ + 1]]
       ELSE scan_token(l2)

\* a scanner that stops at a lexical error: the error token is returned
\* and the cursor is left where the call found it
lexer_next_halting(lx) ==
    LET l1 == skip_whitespace(lx)
        l2 == [l1 EXCEPT !.start = l1.current]
    IN IF is_at_end(l2)
       THEN [tok |-> make_token("EOF", l2), lx |-> l2]
       ELSE LET r == scan_token(l2)
            IN IF r.tok.type = "ERROR" THEN [tok |-> r.tok, lx |-> lx]
               ELSE r

lexer_next(lx) ==
    LET l1 == skip_whitespace(lx)
        l2 == [l1 EXCEPT !.start = l1.current]
    IN IF is_at_end(l2)
       THEN [tok |-> make_token("EOF", l2), lx |-> l2]
       ELSE scan_token(l2)

(***************************************************************************)
(* AST nodes.  A node is a record tagged by its type; NULL is the absent   *)
(* result.  The parser state p is the Parser struct together with the      *)
(* Lexer it points to, the count of nodes obtained from malloc and         *)
(* released by free_node, and a record of the calls that met a token they  *)
(* could not use (events).                                                 *)
(***************************************************************************)
NULL == [type |-> "NULL"]

NoToken == [type |-> "NONE", start |-> 0, length |-> 0, line |-> 0, msg |-> ""]

R(node, p) == [node |-> node, p |-> p]

malloc(p) == [p EXCEPT !.nalloc = @ + 1]

Event(kind, fn, tokType, p, node) ==
    [kind |-> kind, fn |-> fn, tok |-> tokType,
     err |-> p.had_error, null |-> (node = NULL)]

Log(ev, p) == [p EXCEPT !.events = @ \cup {ev}]

\* the body of the loop of fn is entered: the token it starts at and the
\* scanner's cursor are recorded, and "stalled" is recorded when a body of
\* that loop was entered at the same token before
Iteration(fn, p) ==
    IF [fn |-> fn, tok |-> p.current.type, start |-> p.current.start,
        cursor |-> p.lexer.current] \in p.iterations
    THEN Log(Event("stalled", fn, p.current.type, p, NULL), p)
    ELSE [p EXCEPT !.iterations =
              @ \cup {[fn |-> fn, tok |-> p.current.type,
                       start |-> p.current.start,
                       cursor |-> p.lexer.current]}]

RECURSIVE free_node(_)
RECURSIVE free_nodes(_)

\* free_node on every element of an array of nodes
free_nodes(ns) ==
    IF ns = <<>> THEN 0 ELSE free_node(Head(ns)) + free_nodes(Tail(ns))

RECURSIVE free_arms(_)
free_arms(arms) ==
    IF arms = <<>> THEN 0
    ELSE free_node(Head(arms).pattern) + free_node(Head(arms).expression)
         + free_arms(Tail(arms))

\* the number of nodes free_node(n) releases
free_node(n) ==
    IF n = NULL THEN 0
    ELSE CASE n.type = "AST_BINARY" ->
                 free_node(n.left) + free_node(n.right) + 1
           [] n.type = "AST_GROUPING" -> free_node(n.expression) + 1
           [] n.type = "AST_LET_STATEMENT" -> free_node(n.initializer) + 1
           [] n.type = "AST_EXPRESSION_STATEMENT" ->
                 free_node(n.expression) + 1
           [] n.type = "AST_CALL" ->
                 free_node(n.callee) + free_nodes(n.arguments) + 1
           [] n.type = "AST_FUNCTION_STATEMENT" -> free_nodes(n.body) + 1
           [] n.type = "AST_LAMBDA_EXPRESSION" -> free_nodes(n.body) + 1
           [] n.type = "AST_MATCH_STATEMENT" ->
                 free_node(n.value) + free_arms(n.arms) + 1
           [] OTHER -> 1

Free(n, p) == [p EXCEPT !.nfreed = @ + free_node(n)]

(***************************************************************************)
(* Grammar dispatch table (init_parse_rules).  A handler is named by the   *)
(* function it points to.                                                  *)
(***************************************************************************)
DefaultRule == [nud |-> "nud_null", led |-> "led_null", lbp |-> 0]

\* the table with '*' and '/' given the power of '+' and '-'
parse_rules_flat(type) ==
    CASE type = "LPAREN" ->
            [nud |-> "parse_grouping", led |-> "parse_call", lbp |-> 30]
      [] type = "NUMBER" -> [DefaultRule EXCEPT !.nud = "parse_literal"]
      [] type = "IDENTIFIER" -> [DefaultRule EXCEPT !.nud = "parse_variable"]
      [] type \in {"PLUS", "MINUS", "STAR", "SLASH"} ->
            [DefaultRule EXCEPT !.led = "parse_binary", !.lbp = 10]
      [] OTHER -> DefaultRule

parse_rules(type) ==
    CASE type = "LPAREN" ->
            [nud |-> "parse_grouping", led |-> "parse_call", lbp |-> 30]
      [] type = "NUMBER" -> [DefaultRule EXCEPT !.nud = "parse_literal"]
      [] type = "IDENTIFIER" -> [DefaultRule EXCEPT !.nud = "parse_variable"]
      [] type = "FN" ->
            [DefaultRule EXCEPT !.nud = "parse_lambda_expression"]
      [] type = "STRING" -> [DefaultRule EXCEPT !.nud = "parse_literal"]
      [] type = "TRUE" -> [DefaultRule EXCEPT !.nud = "parse_literal"]
      [] type = "FALSE" -> [DefaultRule EXCEPT !.nud = "parse_literal"]
      [] type = "LBRACKET" ->
            [DefaultRule EXCEPT !.nud = "parse_list_literal"]
      [] type = "LBRACE" ->
            [DefaultRule EXCEPT !.nud = "parse_struct_literal"]
      [] type = "PIPELINE" ->
            [DefaultRule EXCEPT !.led = "parse_binary", !.lbp = 5]
      [] type = "PLUS" ->
            [DefaultRule EXCEPT !.led = "parse_binary", !.lbp = 10]
      [] type = "MINUS" ->
            [DefaultRule EXCEPT !.led = "parse_binary", !.lbp = 10]
      [] type = "STAR" ->
            [DefaultRule EXCEPT !.led = "parse_binary", !.lbp = 20]
      [] type = "SLASH" ->
            [DefaultRule EXCEPT !.led = "parse_binary", !.lbp = 20]
      [] type = "DOT" -> [DefaultRule EXCEPT !.led = "led_dot", !.lbp = 40]
      [] type = "LARROW" ->
            [DefaultRule EXCEPT !.led = "led_struct_update", !.lbp = 50]
      [] OTHER -> DefaultRule

get_rule(type) == parse_rules(type)

(***************************************************************************)
(* Parser primitives.                                                      *)
(***************************************************************************)
\* Call(fn, p) is the call fn(p) of a function of parser.c that the rest of
\* the parser reaches from many places; the functions are defined where
\* parser.c defines them and Call is defined after the last of them.
RECURSIVE Call(_, _)

advance_token(p, r) ==
    [p EXCEPT !.previous = p.current, !.current = r.tok, !.lexer = r.lx]

parser_advance(p) == Call("parser_advance", p)

parser_check(p, type) == p.current.type = type

parser_match(p, type) ==
    IF p.current.type = type
    THEN [ok |-> TRUE, p |-> parser_advance(p)]
    ELSE [ok |-> FALSE, p |-> p]

parser_consume(p, type) ==
    IF p.current.type = type
    THEN parser_advance(p)
    ELSE [p EXCEPT !.had_error = TRUE]

SetError(p) == [p EXCEPT !.had_error = TRUE]

(***************************************************************************)
(* Prefix handlers that build a leaf.                                      *)
(***************************************************************************)
parse_literal(p, token) ==
    IF token.type = "TRUE"
    THEN R([type |-> "AST_BOOL_LITERAL", value |-> TRUE], malloc(p))
    ELSE IF token.type = "FALSE"
    THEN R([type |-> "AST_BOOL_LITERAL", value |-> FALSE], malloc(p))
    ELSE R([type |-> "AST_LITERAL", token |-> token], malloc(p))

parse_variable(p, token) ==
    R([type |-> "AST_VARIABLE", name |-> token], malloc(p))

nud_null(p, token) ==
    IF token.type = "EOF" THEN R(NULL, p) ELSE R(NULL, SetError(p))

led_null(p, left, token) == R(NULL, SetError(p))

(***************************************************************************)
(* A function of parser.c that names an intermediate result (the parser    *)
(* after an advance, the result of a sub-parse) is written as a chain of   *)
(* operators: the operator for the rest of the function takes that result  *)
(* as its first parameter.  The rest of a function comes before the        *)
(* function itself.                                                        *)
(***************************************************************************)
\* parse_import_statement after "consume 'import'"
import_path(p1) ==
    IF p1.current.type # "STRING"
    THEN R(NULL, SetError(p1))
    ELSE R([type |-> "AST_IMPORT_STATEMENT", path |-> p1.current],
           malloc(parser_advance(p1)))

parse_import_statement(p0) == import_path(parser_advance(p0))

\* parse_parameter_list: [params, param_count, p]
RECURSIVE parse_parameter_list_loop(_, _)

\* after a parameter name: ',' or ')'
parameter_separator(p1, params) ==
    IF p1.current.type = "COMMA"
    THEN parse_parameter_list_loop(parser_advance(p1), params)
    ELSE IF p1.current.type # "RPAREN"
    THEN [params |-> <<>>, param_count |-> 0, p |-> SetError(p1)]
    ELSE parse_parameter_list_loop(p1, params)

\* the body of the loop of parse_parameter_list
parameter_body(p, params) ==
    IF p.current.type # "IDENTIFIER"
    THEN [params |-> <<>>, param_count |-> 0, p |-> SetError(p)]
    ELSE parameter_separator(parser_advance(p), Append(params, p.current))

parse_parameter_list_loop(p, params) ==
    IF p.current.type # "RPAREN"
    THEN parameter_body(Iteration("parse_parameter_list", p), params)
    ELSE [params |-> params, param_count |-> Len(params),
          p |-> parser_advance(p)]

parse_parameter_list(p) == parse_parameter_list_loop(p, <<>>)

(***************************************************************************)
(* The mutually recursive part of parser.c.  Every function returns        *)
(* R(node, p): its result and the parser state it leaves.                  *)
(***************************************************************************)
RECURSIVE parse_expression(_, _)

parse_statement(p) == Call("parse_statement", p)

LogMissing(fn, missing, node, p) ==
    IF missing
    THEN R(node, Log(Event("missing_token", fn, "", p, node), p))
    ELSE R(node, p)

\* the do-while loop of parse_struct_literal and parse_struct_update:
\* [ok, keys, values, missing, p]; ok = FALSE is "goto error", missing
\* tells that a parser_consume of '=' found another token
RECURSIVE parse_pairs(_, _, _, _)

pairs_while(p3, keys, values, missing) ==
    IF p3.current.type # "RBRACE" /\ p3.current.type # "EOF"
    THEN parse_pairs(p3, keys, values, missing)
    ELSE [ok |-> TRUE, keys |-> keys, values |-> values,
          missing |-> missing, p |-> p3]

\* the pair stored in front of the earlier pairs
pairs_store_front(v, key, keys, values, missing) ==
    IF v.node = NULL
    THEN [ok |-> FALSE, keys |-> keys, values |-> values,
          missing |-> missing, p |-> v.p]
    ELSE pairs_while(IF v.p.current.type = "COMMA"
                     THEN parser_advance(v.p) ELSE v.p,
                     <<key>> \o keys, <<v.node>> \o values, missing)

pairs_store(v, key, keys, values, missing) ==
    IF v.node = NULL
    THEN [ok |-> FALSE, keys |-> keys, values |-> values,
          missing |-> missing, p |-> v.p]
    ELSE pairs_while(IF v.p.current.type = "COMMA"
                     THEN parser_advance(v.p) ELSE v.p,
                     Append(keys, key), Append(values, v.node), missing)

pairs_value(p1, key, keys, values, missing) ==
    pairs_store(parse_expression(parser_consume(p1, "EQUAL"), 0),
                key, keys, values, missing \/ p1.current.type # "EQUAL")

\* the test of the property name at the head of the loop body
pairs_key(p, keys, values, missing) ==
    IF p.current.type # "IDENTIFIER"
    THEN [ok |-> FALSE, keys |-> keys, values |-> values,
          missing |-> missing, p |-> SetError(p)]
    ELSE pairs_value(parser_advance(p), p.current, keys, values, missing)

parse_pairs(p, keys, values, missing) ==
    pairs_key(Iteration("parse_pairs", p), keys, values, missing)

NoPairs(p) ==
    [ok |-> TRUE, keys |-> <<>>, values |-> <<>>, missing |-> FALSE, p |-> p]

struct_literal_end(l) ==
    IF ~l.ok
    THEN LogMissing("parse_struct_literal", l.missing, NULL, l.p)
    ELSE LogMissing("parse_struct_literal",
                    l.missing \/ l.p.current.type # "RBRACE",
                    [type |-> "AST_STRUCT_LITERAL", keys |-> l.keys,
                     values |-> l.values, count |-> Len(l.keys)],
                    malloc(parser_consume(l.p, "RBRACE")))

parse_struct_literal(p, lbrace) ==
    struct_literal_end(IF p.current.type # "RBRACE"
                       THEN parse_pairs(p, <<>>, <<>>, FALSE)
                       ELSE NoPairs(p))

struct_update_end(l, base) ==
    IF ~l.ok
    THEN LogMissing("parse_struct_update", l.missing, NULL, l.p)
    ELSE LogMissing("parse_struct_update",
                    l.missing \/ l.p.current.type # "RBRACE",
                    [type |-> "AST_STRUCT_UPDATE", base |-> base,
                     keys |-> l.keys, values |-> l.values,
                     count |-> Len(l.keys)],
                    malloc(parser_consume(l.p, "RBRACE")))

struct_update_pairs(p, base) ==
    struct_update_end(IF p.current.type # "RBRACE"
                      THEN parse_pairs(p, <<>>, <<>>, FALSE)
                      ELSE NoPairs(p), base)

parse_struct_update(p0, base) == struct_update_pairs(parser_advance(p0), base)

led_struct_update(p, left, lbrace) == parse_struct_update(p, left)

\* the do-while loop of parse_list_literal: [ok, elements, p]
RECURSIVE parse_list_elements(_, _)

list_while(p1, elements) ==
    IF p1.current.type # "RBRACKET" /\ p1.current.type # "EOF"
    THEN parse_list_elements(p1, elements)
    ELSE [ok |-> TRUE, elements |-> elements, p |-> p1]

list_store(e, elements) ==
    IF e.node = NULL
    THEN [ok |-> FALSE, elements |-> elements, p |-> e.p]
    ELSE list_while(IF e.p.current.type = "COMMA"
                    THEN parser_advance(e.p) ELSE e.p,
                    Append(elements, e.node))

parse_list_elements(p, elements) ==
    list_store(parse_expression(Iteration("parse_list_literal", p), 0),
               elements)

list_literal_end(l) ==
    IF ~l.ok
    THEN R(NULL, l.p)
    ELSE LogMissing("parse_list_literal", l.p.current.type # "RBRACKET",
                    [type |-> "AST_LIST_LITERAL",
                     elements |-> l.elements, count |-> Len(l.elements)],
                    malloc(parser_consume(l.p, "RBRACKET")))

parse_list_literal(p, lbracket) ==
    list_literal_end(IF p.current.type # "RBRACKET"
                     THEN parse_list_elements(p, <<>>)
                     ELSE [ok |-> TRUE, elements |-> <<>>, p |-> p])

grouping_close(e) ==
    IF e.p.current.type # "RPAREN"
    THEN R(NULL, Free(e.node, SetError(e.p)))
    ELSE R([type |-> "AST_GROUPING", expression |-> e.node],
           malloc(parser_advance(e.p)))

\* what a call of parse_grouping did, recorded in the parser state: e is
\* the result of its parse_expression, r is what the call returns
grouping_record(e, r) ==
    R(r.node,
      [r.p EXCEPT !.groupings =
          @ \cup {[closed |-> (e.p.current.type = "RPAREN"),
                   sub |-> e.node,
                   err |-> r.p.had_error,
                   null |-> (r.node = NULL),
                   wraps |-> (/\ r.node.type = "AST_GROUPING"
                              /\ r.node.expression = e.node),
                   consumed |-> (/\ r.p.previous = e.p.current
                                 /\ r.p.current # e.p.current),
                   released |-> r.p.nfreed - e.p.nfreed]}])

grouping_after(e) == grouping_record(e, grouping_close(e))

parse_grouping(p, token) == grouping_after(parse_expression(p, 0))

\* the node parse_binary builds once its right operand r is parsed
binary_build(r, left, token) ==
    IF token.type = "PIPELINE"
    THEN R([type |-> "AST_PIPELINE", left |-> left, right |-> r.node],
           malloc(r.p))
    ELSE R([type |-> "AST_BINARY", left |-> left, op |-> token,
            right |-> r.node], malloc(r.p))

\* parse_binary parsing its right operand one power lower
parse_binary_lower(p, left, token) ==
    binary_build(parse_expression(p, get_rule(token.type).lbp - 1),
                 left, token)

parse_binary(p, left, token) ==
    binary_build(parse_expression(p, get_rule(token.type).lbp), left, token)

dot_build(p1, missing, left) ==
    LogMissing("led_dot", missing,
               [type |-> "AST_PROPERTY_ACCESS", object |-> left,
                property |-> p1.previous],
               malloc(p1))

led_dot(p, left, dot) ==
    dot_build(parser_consume(p, "IDENTIFIER"),
              p.current.type # "IDENTIFIER", left)

MaxCallArgs == 255

\* the do-while loop of parse_call: [args, p, more]; more is the value of
\* the loop condition, FALSE after a break
call_while(m, args) == [args |-> args, p |-> m.p, more |-> m.ok]

call_store(a, args) ==
    IF a.node = NULL
    THEN [args |-> args, p |-> a.p, more |-> FALSE]
    ELSE call_while(parser_match(a.p, "COMMA"), Append(args, a.node))

\* one iteration of the loop without the test of the argument count
call_iteration_unbounded(l) ==
    IF ~l.more THEN l
    ELSE call_store(parse_expression(Iteration("parse_call", l.p), 0),
                    l.args)

\* one iteration of the loop, none once the loop has been left
call_iteration(l) ==
    IF ~l.more THEN l
    ELSE IF Len(l.args) >= MaxCallArgs
    THEN [args |-> l.args, p |-> SetError(l.p), more |-> FALSE]
    ELSE call_store(parse_expression(Iteration("parse_call", l.p), 0),
                    l.args)

\* up to n iterations of the loop, the first half of them then the rest
RECURSIVE call_iterations(_, _)

call_iterations_rest(half, n) ==
    IF ~half.more THEN half ELSE call_iterations(half, n)

call_iterations(l, n) ==
    IF n <= 1 THEN call_iteration(l)
    ELSE call_iterations_rest(call_iterations(l, n \div 2), n - n \div 2)

\* the loop runs at most MaxCallArgs + 1 times: an iteration either
\* stores one more argument or leaves the loop
parse_call_args(p, args) ==
    call_iterations([args |-> args, p |-> p, more |-> TRUE], MaxCallArgs + 1)

call_close(l, callee) ==
    LogMissing("parse_call", l.p.current.type # "RPAREN",
               [type |-> "AST_CALL", callee |-> callee,
                arguments |-> l.args, arg_count |-> Len(l.args)],
               parser_consume(l.p, "RPAREN"))

parse_call(p0, callee, token) ==
    call_close(IF ~parser_check(p0, "RPAREN")
               THEN parse_call_args(malloc(p0), <<>>)
               ELSE [args |-> <<>>, p |-> malloc(p0)], callee)

\* the arm loop of parse_match_statement: [ok, arms, p]; ok = FALSE is
\* "goto error_cleanup" after a missing '->'
RECURSIVE parse_match_arms(_, _)

\* the arm stored in front of the earlier arms
match_arm_store_front(e, pattern, arms) ==
    parse_match_arms(IF e.p.current.type = "COMMA"
                     THEN parser_advance(e.p) ELSE e.p,
                     <<[pattern |-> pattern, expression |-> e.node]>>
                       \o arms)

match_arm_store(e, pattern, arms) ==
    parse_match_arms(IF e.p.current.type = "COMMA"
                     THEN parser_advance(e.p) ELSE e.p,
                     Append(arms, [pattern |-> pattern,
                                   expression |-> e.node]))

match_arm_arrow(pat, arms) ==
    IF pat.p.current.type # "ARROW"
    THEN [ok |-> FALSE, arms |-> arms,
          p |-> Free(pat.node, SetError(pat.p))]
    ELSE match_arm_store(parse_expression(parser_advance(pat.p), 0),
                         pat.node, arms)

parse_match_arms(p, arms) ==
    IF p.current.type # "RBRACE" /\ p.current.type # "EOF"
    THEN match_arm_arrow(
             parse_expression(Iteration("parse_match_statement", p), 0),
             arms)
    ELSE [ok |-> TRUE, arms |-> arms, p |-> p]

\* error_cleanup of parse_match_statement
match_error_cleanup(p, value, arms) ==
    [p EXCEPT !.nfreed = @ + free_node(value) + free_arms(arms)]

match_close(l, value) ==
    IF ~l.ok
    THEN R(NULL, match_error_cleanup(l.p, value, l.arms))
    ELSE IF l.p.current.type # "RBRACE"
    THEN R(NULL, match_error_cleanup(SetError(l.p), value, l.arms))
    ELSE R([type |-> "AST_MATCH_STATEMENT", value |-> value,
            arms |-> l.arms, arm_count |-> Len(l.arms)],
           malloc(parser_advance(l.p)))

match_open(v) ==
    IF v.p.current.type # "LBRACE"
    THEN R(NULL, Free(v.node, SetError(v.p)))
    ELSE match_close(parse_match_arms(parser_advance(v.p), <<>>), v.node)

parse_match_statement(p0) ==
    match_open(parse_expression(parser_advance(p0), 0))

expression_statement_build(e) ==
    R([type |-> "AST_EXPRESSION_STATEMENT", expression |-> e.node],
      malloc(e.p))

parse_expression_statement(p) ==
    expression_statement_build(parse_expression(p, 0))

let_build(i, name, is_bang) ==
    IF i.node = NULL
    THEN R(NULL, i.p)
    ELSE R([type |-> IF is_bang THEN "AST_LET_BANG_STATEMENT"
                     ELSE "AST_LET_STATEMENT",
            name |-> name, initializer |-> i.node],
           malloc(i.p))

let_equal(p3, name, is_bang) ==
    IF p3.current.type # "EQUAL"
    THEN R(NULL, SetError(p3))
    ELSE let_build(parse_expression(parser_advance(p3), 0), name, is_bang)

let_name(p2, is_bang) ==
    IF p2.current.type # "IDENTIFIER"
    THEN R(NULL, SetError(p2))
    ELSE let_equal(parser_advance(p2), p2.current, is_bang)

\* parse_let_statement with is_bang left at 0 after the '!' is consumed
let_bang_unmarked(p1) ==
    IF p1.current.type = "BANG"
    THEN let_name(parser_advance(p1), FALSE)
    ELSE let_name(p1, FALSE)

let_bang(p1) ==
    IF p1.current.type = "BANG"
    THEN let_name(parser_advance(p1), TRUE)
    ELSE let_name(p1, FALSE)

parse_let_statement(p0) == let_bang(parser_advance(p0))

\* the statement loop of parse_block: [ok, body, p]; ok = FALSE is the
\* early return after a statement that yielded no node
RECURSIVE parse_block_loop(_, _)

block_store(st, body) ==
    IF st.node = NULL
    THEN [ok |-> FALSE, body |-> <<>>, p |-> st.p]
    ELSE parse_block_loop(st.p, Append(body, st.node))

parse_block_loop(p, body) ==
    IF p.current.type # "RBRACE" /\ p.current.type # "EOF"
    THEN block_store(parse_statement(Iteration("parse_block", p)), body)
    ELSE [ok |-> TRUE, body |-> body, p |-> p]

block_close(l) ==
    IF ~l.ok
    THEN [body_nodes |-> <<>>, body_count |-> 0, p |-> l.p]
    ELSE IF l.p.current.type # "RBRACE"
    THEN [body_nodes |-> <<>>, body_count |-> 0, p |-> SetError(l.p)]
    ELSE [body_nodes |-> l.body, body_count |-> Len(l.body),
          p |-> parser_advance(l.p)]

\* parse_block: [body_nodes, body_count, p]
parse_block(p) == block_close(parse_block_loop(p, <<>>))

lambda_build(b, pl) ==
    IF b.p.had_error THEN R(NULL, b.p)
    ELSE R([type |-> "AST_LAMBDA_EXPRESSION", params |-> pl.params,
            param_count |-> pl.param_count, body |-> b.body_nodes,
            body_count |-> b.body_count], malloc(b.p))

lambda_brace(p1, pl) ==
    IF p1.current.type # "LBRACE" THEN R(NULL, SetError(p1))
    ELSE lambda_build(parse_block(parser_advance(p1)), pl)

lambda_arrow(pl) ==
    IF pl.p.had_error THEN R(NULL, pl.p)
    ELSE IF pl.p.current.type # "ARROW" THEN R(NULL, SetError(pl.p))
    ELSE lambda_brace(parser_advance(pl.p), pl)

parse_lambda_expression(p0, token) ==
    IF p0.current.type # "LPAREN"
    THEN R(NULL, SetError(p0))
    ELSE lambda_arrow(parse_parameter_list(parser_advance(p0)))

function_build(b, pl, name) ==
    IF b.p.had_error THEN R(NULL, b.p)
    ELSE R([type |-> "AST_FUNCTION_STATEMENT", name |-> name,
            params |-> pl.params, param_count |-> pl.param_count,
            body |-> b.body_nodes, body_count |-> b.body_count],
           malloc(b.p))

function_brace(pl, name) ==
    IF pl.p.had_error THEN R(NULL, pl.p)
    ELSE IF pl.p.current.type # "LBRACE" THEN R(NULL, SetError(pl.p))
    ELSE function_build(parse_block(parser_advance(pl.p)), pl, name)

function_paren(p2, name) ==
    IF p2.current.type # "LPAREN" THEN R(NULL, SetError(p2))
    ELSE function_brace(parse_parameter_list(parser_advance(p2)), name)

function_name(p1) ==
    IF p1.current.type # "IDENTIFIER" THEN R(NULL, SetError(p1))
    ELSE function_paren(parser_advance(p1), p1.current)

parse_function_statement(p0) == function_name(parser_advance(p0))

statement_dispatch(p) ==
    IF p.current.type = "IMPORT" THEN parse_import_statement(p)
    ELSE IF p.current.type = "LET" THEN parse_let_statement(p)
    ELSE IF p.current.type = "FUNC" THEN parse_function_statement(p)
    ELSE IF p.current.type = "MATCH" THEN parse_match_statement(p)
    ELSE parse_expression_statement(p)

\* prefix_rule->nud(parser, token)
nud(fn, p, token) ==
    CASE fn = "parse_grouping" -> parse_grouping(p, token)
      [] fn = "parse_literal" -> parse_literal(p, token)
      [] fn = "parse_variable" -> parse_variable(p, token)
      [] fn = "parse_lambda_expression" -> parse_lambda_expression(p, token)
      [] fn = "parse_list_literal" -> parse_list_literal(p, token)
      [] fn = "parse_struct_literal" -> parse_struct_literal(p, token)
      [] OTHER -> nud_null(p, token)

\* infix_rule->led(parser, left, token)
led(fn, p, left, token) ==
    CASE fn = "parse_binary" -> parse_binary(p, left, token)
      [] fn = "parse_call" -> parse_call(p, left, token)
      [] fn = "led_dot" -> led_dot(p, left, token)
      [] fn = "led_struct_update" -> led_struct_update(p, left, token)
      [] OTHER -> led_null(p, left, token)

\* the while loop of parse_expression
RECURSIVE parse_expression_loop(_, _, _)

expression_continue(r, precedence) ==
    parse_expression_loop(r.p, r.node, precedence)

expression_led(p1, left, precedence) ==
    IF get_rule(p1.previous.type).led = "NONE"
    THEN R(left, p1)
    ELSE expression_continue(led(get_rule(p1.previous.type).led, p1, left,
                                 p1.previous), precedence)

parse_expression_loop(p, left, precedence) ==
    IF precedence < get_rule(p.current.type).lbp /\ p.current.type # "EOF"
    THEN expression_led(parser_advance(Iteration("parse_expression", p)),
                        left, precedence)
    ELSE R(left, p)

\* the call is recorded when the token parse_expression advanced over has
\* no prefix handler other than nud_null
expression_return(r, tokType) ==
    IF get_rule(tokType).nud = "nud_null"
    THEN R(r.node, Log(Event("no_prefix", "parse_expression", tokType,
                             r.p, r.node), r.p))
    ELSE r

expression_nud(p1, precedence) ==
    IF get_rule(p1.previous.type).nud = "NONE"
    THEN R(NULL, Log(Event("no_prefix", "parse_expression",
                           p1.previous.type, SetError(p1), NULL),
                     SetError(p1)))
    ELSE expression_return(
             expression_continue(nud(get_rule(p1.previous.type).nud, p1,
                                     p1.previous), precedence),
             p1.previous.type)

parse_expression(p0, precedence) ==
    expression_nud(parser_advance(p0), precedence)

\* entry of parse_statement: the call is recorded with the token it
\* starts at and the error flag it finds
statement_entry(p) ==
    Log(Event("statement", "parse_statement", p.current.type, p, NULL), p)

Call(fn, p) ==
    IF fn = "parser_advance"
    THEN advance_token(p, lexer_next(p.lexer))
    ELSE statement_dispatch(statement_entry(p))

(***************************************************************************)
(* parser_init and the loop of parse().                                    *)
(***************************************************************************)
INITIAL_CAPACITY == 8

NoParser ==
    [lexer |-> lexer_init, current |-> NoToken, previous |-> NoToken,
     had_error |-> FALSE, panic_mode |-> FALSE,
     events |-> {}, iterations |-> {}, groupings |-> {},
     nalloc |-> 0, nfreed |-> 0]

parser_init(lx) ==
    LET r == lexer_next(lx) IN
    [lexer |-> r.lx, current |-> r.tok, previous |-> r.tok,
     had_error |-> FALSE, panic_mode |-> FALSE,
     events |-> {}, iterations |-> {}, groupings |-> {},
     nalloc |-> 0, nfreed |-> 0]

EmptyProgram == [nodes |-> <<>>, count |-> 0, capacity |-> INITIAL_CAPACITY]

\* the loop of parse() without the test of the error flag
parse_loop_cond_no_flag(p) == p.current.type # "EOF"

\* the loop of parse() without the test for end-of-input
parse_loop_cond_no_eof(p) == ~p.had_error

\* the condition of the loop of parse()
parse_loop_cond(p) == p.current.type # "EOF" /\ ~p.had_error

program_append(prog, node) ==
    [nodes |-> Append(prog.nodes, node), count |-> prog.count + 1,
     capacity |-> IF prog.count >= prog.capacity
                  THEN prog.capacity * 2 ELSE prog.capacity]

(***************************************************************************)
(* The printer (parser_print_ast).  A printed text is a sequence of        *)
(* characters, like a source text.                                         *)
(***************************************************************************)
\* the characters an error token points at
MessageText(msg) ==
    CASE msg = "Unexpected '&'." ->
           <<"U", "n", "e", "x", "p", "e", "c", "t", "e", "d", " ", "'",
             "&", "'", ".">>
      [] msg = "Unexpected character." ->
           <<"U", "n", "e", "x", "p", "e", "c", "t", "e", "d", " ", "c",
             "h", "a", "r", "a", "c", "t", "e", "r", ".">>
      [] OTHER ->
           <<"U", "n", "t", "e", "r", "m", "i", "n", "a", "t", "e", "d",
             " ", "s", "t", "r", "i", "n", "g", ".">>

\* printf("%.*s", token->length, token->start)
print_token(token) ==
    IF token.type = "ERROR" THEN MessageText(token.msg)
    ELSE SubSeq(source, token.start, token.start + token.length - 1)

\* the tokens of a parameter list, ", " between them
RECURSIVE print_params(_)
print_params(params) ==
    IF params = <<>> THEN <<>>
    ELSE print_token(Head(params))
           \o (IF Len(params) > 1 THEN <<",", " ">> ELSE <<>>)
           \o print_params(Tail(params))

\* a binary node printed without its parentheses
print_binary_bare(left, op, right) ==
    left \o <<" ">> \o print_token(op) \o <<" ">> \o right

\* case AST_BINARY, from the texts of the operands
print_binary(left, op, right) ==
    <<"(">> \o left \o <<" ">> \o print_token(op) \o <<" ">> \o right
      \o <<")">>

RECURSIVE parser_print_ast_node(_)
RECURSIVE print_nodes(_, _)
RECURSIVE print_arms(_)

\* the nodes of an array, sep between them
print_nodes(ns, sep) ==
    IF ns = <<>> THEN <<>>
    ELSE parser_print_ast_node(Head(ns))
           \o (IF Len(ns) > 1 THEN sep ELSE <<>>)
           \o print_nodes(Tail(ns), sep)

print_arms(arms) ==
    IF arms = <<>> THEN <<>>
    ELSE <<" ", " ">> \o parser_print_ast_node(Head(arms).pattern)
           \o <<" ", "-", ">", " ">>
           \o parser_print_ast_node(Head(arms).expression)
           \o <<",", "\n">>
           \o print_arms(Tail(arms))

parser_print_ast_node(node) ==
    IF node = NULL THEN <<"N", "U", "L", "L">>
    ELSE CASE node.type = "AST_LITERAL" -> print_token(node.token)
           [] node.type = "AST_BINARY" ->
                print_binary(parser_print_ast_node(node.left), node.op,
                             parser_print_ast_node(node.right))
           [] node.type = "AST_VARIABLE" -> print_token(node.name)
           [] node.type = "AST_GROUPING" ->
                <<"(">> \o parser_print_ast_node(node.expression) \o <<")">>
           [] node.type = "AST_CALL" ->
                parser_print_ast_node(node.callee) \o <<"(">>
                  \o print_nodes(node.arguments, <<",", " ">>) \o <<")">>
           [] node.type = "AST_LET_STATEMENT" ->
                <<"l", "e", "t", " ">> \o print_token(node.name)
                  \o <<" ", "=", " ">>
                  \o parser_print_ast_node(node.initializer)
           [] node.type = "AST_EXPRESSION_STATEMENT" ->
                parser_print_ast_node(node.expression)
           [] node.type = "AST_FUNCTION_STATEMENT" ->
                <<"f", "u", "n", "c", " ">> \o print_token(node.name)
                  \o <<"(">> \o print_params(node.params)
                  \o <<")", " ", "{", " ">>
                  \o print_nodes(node.body, <<";", " ">>) \o <<" ", "}">>
           [] node.type = "AST_LAMBDA_EXPRESSION" ->
                <<"f", "n", "(">> \o print_params(node.params)
                  \o <<")", " ", "-", ">", " ", "{", " ">>
                  \o print_nodes(node.body, <<";", " ">>) \o <<" ", "}">>
           [] node.type = "AST_MATCH_STATEMENT" ->
                <<"m", "a", "t", "c", "h", " ">>
                  \o parser_print_ast_node(node.value)
                  \o <<" ", "{", "\n">> \o print_arms(node.arms) \o <<"}">>
           [] OTHER -> <<>>

\* every node of the Program, a newline after each
RECURSIVE parser_print_ast_loop(_)
parser_print_ast_loop(ns) ==
    IF ns = <<>> THEN <<>>
    ELSE parser_print_ast_node(Head(ns)) \o <<"\n">>
           \o parser_print_ast_loop(Tail(ns))

parser_print_ast(prog) == parser_print_ast_loop(prog.nodes)

\* the Program after parser_free_ast
parser_free_ast(prog) == [nodes |-> <<>>, count |-> 0, capacity |-> 0]

(***************************************************************************)
(* Source texts: words from a vocabulary, joined by a separator.           *)
(***************************************************************************)
RECURSIVE Flatten(_)
Flatten(wss) == IF wss = <<>> THEN <<>> ELSE Head(wss) \o Flatten(Tail(wss))

RECURSIVE Join(_, _)
Join(ws, sep) ==
    IF ws = <<>> THEN <<>>
    ELSE IF Len(ws) = 1 THEN ws[1]
    ELSE ws[1] \o sep \o Join(Tail(ws), sep)

WordSeqs(V, max) == UNION {[1..n -> V] : n \in 0..max}

Sources(V, max, sep) == {Join(ws, sep) : ws \in WordSeqs(V, max)}

SP == <<" ">>

ErrVocab == {<<"l", "e", "t">>, <<"x">>, <<"=">>, <<"1">>, <<"+">>, <<")">>}

ArithVocab == {<<"2">>, <<"+">>, <<"-">>, <<"*">>, <<"/">>}

PipeVocab == {<<"a">>, <<"b">>, <<"c">>, <<"|", ">">>}

DelimVocab ==
    {<<"a">>, <<".">>, <<"(">>, <<"[">>, <<"{">>, <<"=">>, <<"}">>}

StrVocab == {<<"\"">>, <<"a">>, <<"l", "e", "t">>, <<"=">>, <<"+">>, <<"(">>}

(***************************************************************************)
(* The state machine.  A run either drives the scanner directly, as        *)
(* lexer_debug does (pc = "scan"), or initialises a parser and runs        *)
(* parse() (pc = "init", "parse", "done").                                 *)
(***************************************************************************)
\* what main has written to its output: nothing before parser_print_ast;
\* afterwards the text, with the source and the Program it was printed
\* from, and round = 2 once the text has been given to the parser again
NotPrinted ==
    [round |-> 1, text |-> <<>>, source |-> <<>>, program |-> EmptyProgram,
     had_error |-> FALSE]

InitOf(S) ==
    /\ source \in S
    /\ pc \in {"scan", "init"}
    /\ lexer = lexer_init
    /\ tok = NoToken
    /\ eofReads = 0
    /\ parser = NoParser
    /\ program = EmptyProgram
    /\ printed = NotPrinted

Init == InitOf(Sources(ErrVocab, MaxWords, SP))

InitArith == InitOf(Sources(ArithVocab, MaxArithWords, SP))

InitPipe == InitOf(Sources(PipeVocab, MaxPipeWords, SP))

InitDelim == InitOf(Sources(DelimVocab, MaxDelimWords, SP))

InitStr == InitOf(Sources(StrVocab, MaxStrWords, SP))

\* one call of lexer_next by a client of the scanner
Scan ==
    /\ pc = "scan"
    /\ eofReads <= MaxEofReads
    /\ LET r == lexer_next(lexer) IN
         /\ lexer' = r.lx
         /\ tok' = r.tok
         /\ eofReads' = IF r.tok.type = "EOF" THEN eofReads + 1 ELSE eofReads
    /\ UNCHANGED <<source, pc, parser, program, printed>>

ParserInit ==
    /\ pc = "init"
    /\ parser' = parser_init(lexer)
    /\ pc' = "parse"
    /\ UNCHANGED <<source, lexer, tok, eofReads, program, printed>>

\* one iteration of the loop of parse()
ParseStatement ==
    /\ pc = "parse"
    /\ parse_loop_cond(parser)
    /\ LET r == parse_statement(parser) IN
         /\ parser' = r.p
         /\ IF r.node = NULL
            THEN pc' = "done" /\ program' = program
            ELSE pc' = "parse" /\ program' = program_append(program, r.node)
    /\ UNCHANGED <<source, lexer, tok, eofReads, printed>>

\* the loop condition fails: parse() returns the program
ParseReturn ==
    /\ pc = "parse"
    /\ ~parse_loop_cond(parser)
    /\ pc' = "done"
    /\ UNCHANGED <<source, lexer, tok, eofReads, parser, program, printed>>

Next == Scan \/ ParserInit \/ ParseStatement \/ ParseReturn

\* main prints the Program that parse() returned
PrintAst ==
    /\ pc = "done"
    /\ printed.round = 1
    /\ printed' = [printed EXCEPT !.text = parser_print_ast(program),
                                  !.source = source,
                                  !.program = program,
                                  !.had_error = parser.had_error]
    /\ pc' = "printed"
    /\ UNCHANGED <<source, lexer, tok, eofReads, parser, program>>

\* main destroys the Program
FreeAst ==
    /\ pc = "printed"
    /\ parser' = [parser EXCEPT !.nfreed = @ + free_nodes(program.nodes)]
    /\ program' = parser_free_ast(program)
    /\ pc' = "freed"
    /\ UNCHANGED <<source, lexer, tok, eofReads, printed>>

\* the printed text is the source of a second run of the parser
Reparse ==
    /\ pc = "freed"
    /\ printed.round = 1
    /\ source' = printed.text
    /\ printed' = [printed EXCEPT !.round = 2]
    /\ lexer' = lexer_init
    /\ parser' = NoParser
    /\ program' = EmptyProgram
    /\ pc' = "init"
    /\ UNCHANGED <<tok, eofReads>>

NextMain == Next \/ PrintAst \/ FreeAst \/ Reparse

Spec == Init /\ [][Next]_vars

SpecArith == InitArith /\ [][Next]_vars

SpecPipe == InitPipe /\ [][Next]_vars

SpecDelim == InitDelim /\ [][Next]_vars

SpecStr == InitStr /\ [][Next]_vars

TypeOK ==
    /\ pc \in {"scan", "init", "parse", "done", "printed", "freed", "updated"}
    /\ lexer.current \in 1..(Len(source) + 1)
    /\ parser.lexer.current \in 1..(Len(source) + 1)
    /\ program.count = Len(program.nodes)

(***************************************************************************)
(* Properties.  Src(ws) is the source text made of the words ws.           *)
(***************************************************************************)
Src(ws) == Join(ws, SP)

Done == pc = "done"

\* C1: once lexer_next has returned an end-of-input token, every later call
\* on the same scanner returns an end-of-input token again and leaves the
\* cursor position and the line counter unchanged.
EofIsSticky ==
    [][(pc = "scan" /\ tok.type = "EOF")
       => /\ tok'.type = "EOF"
          /\ lexer'.current = lexer.current
          /\ lexer'.line = lexer.line]_vars

\* a scanner read after the end-of-input token, on a source with tokens
EofReadAgain ==
    /\ pc = "scan"
    /\ eofReads >= 2
    /\ tok.type = "EOF"
    /\ Len(source) > 0

(***************************************************************************)
(* Reference trees for sources of one-character words: word i is the       *)
(* character at position 2i - 1.                                           *)
(***************************************************************************)
RefWords == (Len(source) + 1) \div 2

RefChar(i) == source[2 * i - 1]

RefToken(i, type) ==
    [type |-> type, start |-> 2 * i - 1, length |-> 1, line |-> 1, msg |-> ""]

RefOperator(i) ==
    RefToken(i, CASE RefChar(i) = "+" -> "PLUS"
                  [] RefChar(i) = "-" -> "MINUS"
                  [] RefChar(i) = "*" -> "STAR"
                  [] RefChar(i) = "/" -> "SLASH")

RefNumber(i) == [type |-> "AST_LITERAL", token |-> RefToken(i, "NUMBER")]

RefBinary(left, i, right) ==
    [type |-> "AST_BINARY", left |-> left, op |-> RefOperator(i),
     right |-> right]

RefStatement(e) == [type |-> "AST_EXPRESSION_STATEMENT", expression |-> e]

RefPower(i) == IF RefChar(i) \in {"+", "-"} THEN 10 ELSE 20

\* operands and operators + - * / in alternation, an operand at both ends
WellFormedArith ==
    /\ Len(source) % 2 = 1
    /\ RefWords % 2 = 1
    /\ \A i \in 1..RefWords :
          IF i % 2 = 1 THEN RefChar(i) = "2"
          ELSE RefChar(i) \in {"+", "-", "*", "/"}

\* precedence climbing from word i: [node, next]
RECURSIVE RefClimb(_, _)
RECURSIVE RefClimbLoop(_, _, _)
RefClimb(i, minPower) == RefClimbLoop(RefNumber(i), i + 1, minPower)

RefClimbLoop(left, i, minPower) ==
    IF i <= RefWords /\ RefPower(i) > minPower
    THEN LET r == RefClimb(i + 1, RefPower(i))
         IN RefClimbLoop(RefBinary(left, i, r.node), r.next, minPower)
    ELSE [node |-> left, next |-> i]

\* C2: for an expression of operands joined by + - * /, a multiplicative
\* operator binds tighter than an adjacent additive one: 2 + 3 * 4 yields
\* 2 + (3 * 4), 2 * 3 + 4 yields (2 * 3) + 4, and in general the tree is the
\* one precedence climbing builds with additive power 10 and
\* multiplicative power 20.
MultiplicativeBindsTighter ==
    (Done /\ WellFormedArith) =>
        /\ ~parser.had_error
        /\ program.nodes = <<RefStatement(RefClimb(1, 0).node)>>
        /\ source = Src(<< <<"2">>, <<"+">>, <<"2">>, <<"*">>, <<"2">> >>)
             => program.nodes[1].expression =
                  RefBinary(RefNumber(1), 2,
                            RefBinary(RefNumber(3), 4, RefNumber(5)))
        /\ source = Src(<< <<"2">>, <<"*">>, <<"2">>, <<"+">>, <<"2">> >>)
             => program.nodes[1].expression =
                  RefBinary(RefBinary(RefNumber(1), 2, RefNumber(3)),
                            4, RefNumber(5))

\* the parse of 2 + 2 * 2 has returned its one statement
MixedPowersParsed ==
    /\ Done
    /\ source = Src(<< <<"2">>, <<"+">>, <<"2">>, <<"*">>, <<"2">> >>)
    /\ program.count = 1
    /\ program.nodes[1].expression.op.type = "PLUS"

\* C3: binary operators of equal binding power are left-associative:
\* x op1 y op2 z with op1 and op2 of the same power yields
\* (x op1 y) op2 z, in particular 1 - 2 - 3 is (1 - 2) - 3.
EqualPowerAssociatesLeft ==
    (Done /\ WellFormedArith /\ RefWords = 5
          /\ get_rule(RefOperator(2).type).lbp
               = get_rule(RefOperator(4).type).lbp) =>
        /\ program.count = 1
        /\ program.nodes[1].expression =
             RefBinary(RefBinary(RefNumber(1), 2, RefNumber(3)),
                       4, RefNumber(5))

\* the parse of 2 - 2 - 2 has returned its one statement
MinusChainParsed ==
    /\ Done
    /\ source = Src(<< <<"2">>, <<"-">>, <<"2">>, <<"-">>, <<"2">> >>)
    /\ program.count = 1
    /\ program.nodes[1].expression.op.start = 7

(***************************************************************************)
(* Pipelines.                                                              *)
(***************************************************************************)
PipeChain ==
    Src(<< <<"a">>, <<"|", ">">>, <<"b">>, <<"|", ">">>, <<"c">> >>)

RefVariable(start) ==
    [type |-> "AST_VARIABLE",
     name |-> [type |-> "IDENTIFIER", start |-> start, length |-> 1,
               line |-> 1, msg |-> ""]]

RefPipeline(left, right) ==
    [type |-> "AST_PIPELINE", left |-> left, right |-> right]

ErrorTails ==
    {Src(<< <<"l", "e", "t">>, <<"x">>, <<"=">> >>),
     Src(<< <<"l", "e", "t">>, <<"=">> >>),
     Src(<< <<"1">>, <<"+">> >>),
     Src(<< <<")">> >>)}

\* the source is n one-word statements (x or 1) followed by tail
StatementsThenError(n, tail) ==
    /\ Len(source) = 2 * n + Len(tail)
    /\ \A i \in 1..n : source[2 * i - 1] \in {"x", "1"} /\ source[2 * i] = " "
    /\ SubSeq(source, 2 * n + 1, Len(source)) = tail

RefOperand(i) ==
    IF RefChar(i) = "x" THEN RefVariable(2 * i - 1) ELSE RefNumber(i)

\* the first n nodes of the Program are the n one-word statements
FirstNodesAre(n) ==
    /\ program.count >= n
    /\ \A i \in 1..n : program.nodes[i] = RefStatement(RefOperand(i))

\* C5: when a source has n complete top-level statements followed by a
\* statement with a syntax error, parse returns a Program whose first n
\* nodes are exactly those statements in source order, and the error flag
\* is set on return.
ErrorKeepsEarlierStatements ==
    \A n \in 0..MaxWords : \A tail \in ErrorTails :
        (Done /\ StatementsThenError(n, tail)) =>
            FirstNodesAre(n) /\ parser.had_error

\* the part of C5 about the nodes alone
EarlierStatementsKept ==
    \A n \in 0..MaxWords : \A tail \in ErrorTails :
        (Done /\ StatementsThenError(n, tail)) => FirstNodesAre(n)

RECURSIVE HasAbsent(_)
RECURSIVE AnyAbsent(_)
RECURSIVE AnyArmAbsent(_)

AnyAbsent(ns) ==
    ns # <<>> /\ (HasAbsent(Head(ns)) \/ AnyAbsent(Tail(ns)))

AnyArmAbsent(arms) ==
    arms # <<>> /\ \/ HasAbsent(Head(arms).pattern)
                   \/ HasAbsent(Head(arms).expression)
                   \/ AnyArmAbsent(Tail(arms))

\* node n is absent or has an absent operand or sub-expression
HasAbsent(n) ==
    \/ n = NULL
    \/ n.type \in {"AST_BINARY", "AST_PIPELINE"}
         /\ (HasAbsent(n.left) \/ HasAbsent(n.right))
    \/ n.type \in {"AST_GROUPING", "AST_EXPRESSION_STATEMENT"}
         /\ HasAbsent(n.expression)
    \/ n.type \in {"AST_LET_STATEMENT", "AST_LET_BANG_STATEMENT"}
         /\ HasAbsent(n.initializer)
    \/ n.type = "AST_CALL"
         /\ (HasAbsent(n.callee) \/ AnyAbsent(n.arguments))
    \/ n.type \in {"AST_FUNCTION_STATEMENT", "AST_LAMBDA_EXPRESSION"}
         /\ AnyAbsent(n.body)
    \/ n.type = "AST_MATCH_STATEMENT"
         /\ (HasAbsent(n.value) \/ AnyArmAbsent(n.arms))
    \/ n.type = "AST_STRUCT_LITERAL" /\ AnyAbsent(n.values)
    \/ n.type = "AST_STRUCT_UPDATE"
         /\ (HasAbsent(n.base) \/ AnyAbsent(n.values))
    \/ n.type = "AST_LIST_LITERAL" /\ AnyAbsent(n.elements)
    \/ n.type = "AST_PROPERTY_ACCESS" /\ HasAbsent(n.object)

\* C6: when parse ends with the error flag set, the Program holds no node
\* for the statement in which the error occurred: no node of the Program
\* has an absent (NULL) operand or sub-expression.
ErrorLeavesNoPartialNode ==
    (Done /\ parser.had_error) => ~AnyAbsent(program.nodes)

\* C7: whenever parse_expression is entered and the token it advances over
\* cannot start an expression (the end-of-input token included), the error
\* flag is set and parse_expression returns an absent result.
NoPrefixIsError ==
    \A e \in parser.events : e.kind = "no_prefix" => (e.err /\ e.null)

\* C8: whenever a parse function finds a required token missing, it sets
\* the error flag and returns an absent result instead of a node.
MissingTokenIsAbsent ==
    \A e \in parser.events : e.kind = "missing_token" => (e.err /\ e.null)

\* C9: once the error flag is set, the loop of parse requests no further
\* top-level statement: parse returns the nodes accumulated so far and
\* nothing more of the source is consumed or turned into a node.
ErrorStopsTopLevelLoop ==
    [][(pc = "parse" /\ parser.had_error)
       => (pc' = "done" /\ program' = program /\ parser' = parser)]_vars

\* parse has returned with the flag set and source text left unread
StoppedBeforeEnd ==
    /\ Done
    /\ parser.had_error
    /\ parser.current.type # "EOF"
    /\ program.count > 0

\* a string's opening quote has no closing quote before end of input
UnterminatedSource ==
    Cardinality({i \in 1..Len(source) : source[i] = "\""}) % 2 = 1

\* what parse() has left to read: the text after the cursor and the token
\* it holds
Unread(p) ==
    (Len(source) + 1 - p.lexer.current)
      + (IF p.current.type = "EOF" THEN 0 ELSE 1)

\* C10: for every source in which a string's opening quote has no closing
\* quote before end of input, the scanner returns an error token with the
\* message "Unterminated string." and the cursor at end of input (it is
\* the token returned before the first end-of-input token), and a parse of
\* that source terminates (every iteration of its loop returns or leaves
\* less to read) with the error flag set.
UnterminatedStringIsError ==
    /\ [][(pc = "scan" /\ UnterminatedSource
             /\ tok.type # "EOF" /\ tok'.type = "EOF")
          => /\ tok.type = "ERROR"
             /\ tok.msg = "Unterminated string."
             /\ tok.line = lexer.line
             /\ lexer.current = Len(source) + 1]_vars
    /\ [][(pc = "parse" /\ UnterminatedSource)
          => (pc' = "done" \/ Unread(parser') < Unread(parser))]_vars
    /\ []((Done /\ UnterminatedSource) => parser.had_error)

\* the parse of a source with an unterminated string has returned
UnterminatedParsed ==
    /\ Done
    /\ UnterminatedSource
    /\ parser.had_error
    /\ Len(source) > 1

(***************************************************************************)
(* The words of a source text: maximal runs of characters other than the   *)
(* space, each with the position of its first character.                   *)
(***************************************************************************)
RECURSIVE WordEnd(_)
WordEnd(i) ==
    IF i > Len(source) \/ source[i] = " " THEN i ELSE WordEnd(i + 1)

RECURSIVE SplitFrom(_)
SplitFrom(i) ==
    IF i > Len(source) THEN <<>>
    ELSE IF source[i] = " " THEN SplitFrom(i + 1)
    ELSE <<[start |-> i, text |-> SubSeq(source, i, WordEnd(i) - 1)]>>
           \o SplitFrom(WordEnd(i))

SourceWords == SplitFrom(1)

WordToken(w, type) ==
    [type |-> type, start |-> w.start, length |-> Len(w.text),
     line |-> 1, msg |-> ""]

\* the node of a one-word operand: a number, a string or an identifier
WordNode(w) ==
    IF w.text[1] \in Digits
    THEN [type |-> "AST_LITERAL", token |-> WordToken(w, "NUMBER")]
    ELSE IF w.text[1] = "\""
    THEN [type |-> "AST_LITERAL", token |-> WordToken(w, "STRING")]
    ELSE [type |-> "AST_VARIABLE", name |-> WordToken(w, "IDENTIFIER")]

\* the token a leaf node holds
LeafToken(n) == IF n.type = "AST_VARIABLE" THEN n.name ELSE n.token

\* leaf node n was built from word w
BuiltFrom(n, w) ==
    /\ n.type \in {"AST_VARIABLE", "AST_LITERAL"}
    /\ LeafToken(n).start = w.start
    /\ LeafToken(n).length = Len(w.text)

(***************************************************************************)
(* Match statements.                                                       *)
(***************************************************************************)
KwMatch == <<"m", "a", "t", "c", "h">>

MatchOperands == {<<"x">>, <<"1">>, <<"_">>, <<"\"", "a", "\"">>}

RECURSIVE ArmWords(_)
ArmWords(arms) ==
    IF arms = <<>> THEN <<>>
    ELSE <<Head(arms)[1], <<"-", ">">>, Head(arms)[2]>>
           \o (IF Len(arms) > 1 THEN << <<",">> >> ELSE <<>>)
           \o ArmWords(Tail(arms))

\* match e { p1 -> r1 , ... , pk -> rk }
MatchText(e, arms) ==
    Src(<<KwMatch, e, <<"{">> >> \o ArmWords(arms) \o << <<"}">> >>)

MatchTexts ==
    {MatchText(e, arms) :
        e \in MatchOperands,
        arms \in UNION {[1..k -> MatchOperands \X MatchOperands] :
                          k \in 0..MaxArms}}

MatchVocab ==
    {KwMatch, <<"x">>, <<"_">>, <<"1">>, <<"{">>, <<"}">>, <<"-", ">">>,
     <<",">>}

\* match e { p1 -> r1 p2 -> r2 ... }: the arms with no comma between them
BareMatchTexts ==
    {Src(<<KwMatch, e, <<"{">> >>
           \o Flatten([j \in 1..Len(arms) |->
                         <<arms[j][1], <<"-", ">">>, arms[j][2]>>])
           \o << <<"}">> >>) :
        e \in MatchOperands,
        arms \in UNION {[1..k -> MatchOperands \X MatchOperands] :
                          k \in 2..MaxArms}}

InitMatch ==
    InitOf(MatchTexts \cup BareMatchTexts
             \cup Sources(MatchVocab, MaxMatchWords, SP))

SpecMatch == InitMatch /\ [][Next]_vars

\* the number of arms of a source of the form
\* match e { p1 -> r1 , ... , pk -> rk }, or -1
MatchArmCount ==
    LET ws == SourceWords
        n == Len(ws)
        k == IF n = 4 THEN 0 ELSE (n - 3) \div 4
        IsOperand(i) == ws[i].text \in MatchOperands
    IN IF /\ n >= 4
          /\ (n = 4 \/ n = 4 * k + 3)
          /\ ws[1].text = KwMatch
          /\ IsOperand(2)
          /\ ws[3].text = <<"{">>
          /\ ws[n].text = <<"}">>
          /\ \A j \in 1..k :
                /\ IsOperand(4 * j)
                /\ ws[4 * j + 1].text = <<"-", ">">>
                /\ IsOperand(4 * j + 2)
                /\ (j < k => ws[4 * j + 3].text = <<",">>)
       THEN k ELSE -1

\* C11: match e { p1 -> r1, ..., pk -> rk } parses to one match node whose
\* scrutinee is e and whose arms are exactly the k (pattern, result) pairs
\* in source order.
MatchArmsInOrder ==
    (Done /\ MatchArmCount >= 0) =>
        /\ ~parser.had_error
        /\ program.count = 1
        /\ program.nodes[1].type = "AST_MATCH_STATEMENT"
        /\ program.nodes[1].value = WordNode(SourceWords[2])
        /\ program.nodes[1].arm_count = MatchArmCount
        /\ Len(program.nodes[1].arms) = MatchArmCount
        /\ \A j \in 1..MatchArmCount :
              /\ BuiltFrom(program.nodes[1].arms[j].pattern,
                           SourceWords[4 * j])
              /\ program.nodes[1].arms[j].expression
                   = WordNode(SourceWords[4 * j + 2])

\* the parse of  match x { 1 -> "a" , _ -> x }  has returned two arms
TwoArmsParsed ==
    /\ Done
    /\ source = MatchText(<<"x">>, << <<(<<"1">>), <<"\"", "a", "\"">> >>,
                                      <<(<<"_">>), <<"x">> >> >>)
    /\ program.count = 1
    /\ program.nodes[1].arm_count = 2

\* C12: in a match arm whose pattern is the lone _, the scanner emits the
\* dedicated underscore token kind for _ and the pattern node differs in
\* kind from an ordinary variable reference.
WildcardIsDistinguished ==
    /\ (pc = "scan" /\ tok.type \notin {"NONE", "EOF", "ERROR"}
          /\ tok.length = 1 /\ source[tok.start] = "_")
         => tok.type = "UNDERSCORE"
    /\ (Done /\ MatchArmCount >= 0) =>
          \A j \in 1..MatchArmCount :
              SourceWords[4 * j].text = <<"_">>
                => program.nodes[1].arms[j].pattern.type # "AST_VARIABLE"

(***************************************************************************)
(* Struct literals.                                                        *)
(***************************************************************************)
KwLet == <<"l", "e", "t">>

StructKeys == {<<"a">>, <<"b">>}

StructValues == {<<"1">>, <<"x">>, <<"\"", "a", "\"">>}

RECURSIVE PairWords(_)
PairWords(pairs) ==
    IF pairs = <<>> THEN <<>>
    ELSE <<Head(pairs)[1], <<"=">>, Head(pairs)[2]>>
           \o (IF Len(pairs) > 1 THEN << <<",">> >> ELSE <<>>)
           \o PairWords(Tail(pairs))

\* { k1 = v1 , ... , kn = vn }, as a statement or after prefix
StructText(prefix, pairs) ==
    Src(prefix \o << <<"{">> >> \o PairWords(pairs) \o << <<"}">> >>)

StructPrefixes == {<<>>, <<KwLet, <<"s">>, <<"=">> >>}

StructTexts ==
    {StructText(prefix, pairs) :
        prefix \in StructPrefixes,
        pairs \in UNION {[1..n -> StructKeys \X StructValues] :
                           n \in 0..MaxPairs}}

StructVocab == {<<"a">>, <<"1">>, <<"{">>, <<"}">>, <<"=">>, <<",">>}

InitStruct ==
    InitOf(StructTexts \cup Sources(StructVocab, MaxStructWords, SP))

SpecStruct == InitStruct /\ [][Next]_vars

\* the number of pairs when the words from word off + 1 on are
\* { k1 = v1 , ... , kn = vn }, or -1
StructPairCount(off) ==
    LET ws == SourceWords
        m == Len(ws) - off
        n == IF m = 2 THEN 0 ELSE (m - 1) \div 4
    IN IF /\ m >= 2
          /\ (m = 2 \/ m = 4 * n + 1)
          /\ ws[off + 1].text = <<"{">>
          /\ ws[off + m].text = <<"}">>
          /\ \A i \in 1..n :
                /\ ws[off + 4 * i - 2].text \in StructKeys
                /\ ws[off + 4 * i - 1].text = <<"=">>
                /\ ws[off + 4 * i].text \in StructValues
                /\ (i < n => ws[off + 4 * i + 1].text = <<",">>)
       THEN n ELSE -1

\* the struct-literal node of the pairs that start after word off
RefStruct(off) ==
    [type |-> "AST_STRUCT_LITERAL",
     keys |-> [i \in 1..StructPairCount(off) |->
                 WordToken(SourceWords[off + 4 * i - 2], "IDENTIFIER")],
     values |-> [i \in 1..StructPairCount(off) |->
                   WordNode(SourceWords[off + 4 * i])],
     count |-> StructPairCount(off)]

\* the source is  let s = { ... }
IsLetStruct ==
    /\ Len(SourceWords) >= 5
    /\ SourceWords[1].text = KwLet
    /\ SourceWords[2].text = <<"s">>
    /\ SourceWords[3].text = <<"=">>
    /\ StructPairCount(3) >= 0

\* C13: a struct literal { k1 = v1, ..., kn = vn } in expression position
\* parses to one struct-literal node holding exactly n key/value pairs in
\* source order (count = n, keys[i] = ki, values[i] = parse of vi).
StructPairsInOrder ==
    /\ (Done /\ StructPairCount(0) >= 0) =>
          /\ ~parser.had_error
          /\ program.nodes = <<RefStatement(RefStruct(0))>>
    /\ (Done /\ IsLetStruct) =>
          /\ ~parser.had_error
          /\ program.nodes =
               <<[type |-> "AST_LET_STATEMENT",
                  name |-> WordToken(SourceWords[2], "IDENTIFIER"),
                  initializer |-> RefStruct(3)]>>

\* the parse of  { a = "a" , b = 1 }  has returned its two pairs
TwoPairsParsed ==
    /\ Done
    /\ source = StructText(<<>>, << <<(<<"a">>), <<"\"", "a", "\"">> >>,
                                   <<(<<"b">>), <<"1">> >> >>)
    /\ program.count = 1
    /\ program.nodes[1].expression.count = 2

(***************************************************************************)
(* Printing and parsing again.  The shape of a node is the node with       *)
(* every token replaced by its text in the source src and every grouping   *)
(* node replaced by the expression it holds.                               *)
(***************************************************************************)
TokenText(token, src) ==
    SubSeq(src, token.start, token.start + token.length - 1)

RECURSIVE Shape(_, _)
RECURSIVE Shapes(_, _)

Shapes(ns, src) == [i \in 1..Len(ns) |-> Shape(ns[i], src)]

Shape(n, src) ==
    IF n = NULL THEN NULL
    ELSE CASE n.type = "AST_LITERAL" ->
                [type |-> n.type, text |-> TokenText(n.token, src)]
           [] n.type = "AST_VARIABLE" ->
                [type |-> n.type, text |-> TokenText(n.name, src)]
           [] n.type = "AST_BINARY" ->
                [type |-> n.type, op |-> TokenText(n.op, src),
                 left |-> Shape(n.left, src), right |-> Shape(n.right, src)]
           [] n.type = "AST_GROUPING" -> Shape(n.expression, src)
           [] n.type = "AST_EXPRESSION_STATEMENT" ->
                [type |-> n.type, expression |-> Shape(n.expression, src)]
           [] n.type = "AST_LET_STATEMENT" ->
                [type |-> n.type, name |-> TokenText(n.name, src),
                 initializer |-> Shape(n.initializer, src)]
           [] n.type = "AST_CALL" ->
                [type |-> n.type, callee |-> Shape(n.callee, src),
                 arguments |-> Shapes(n.arguments, src)]
           [] n.type = "AST_FUNCTION_STATEMENT" ->
                [type |-> n.type, name |-> TokenText(n.name, src),
                 params |-> [i \in 1..Len(n.params) |->
                               TokenText(n.params[i], src)],
                 body |-> Shapes(n.body, src)]
           [] OTHER -> [type |-> n.type]

\* the second parse, of the printed text, has returned
Reparsed == Done /\ printed.round = 2

\* the second Program has the shape of the first
SameShapes ==
    /\ ~parser.had_error
    /\ Shapes(program.nodes, source)
         = Shapes(printed.program.nodes, printed.source)

(***************************************************************************)
(* Function declarations.                                                  *)
(***************************************************************************)
KwFunc == <<"f", "u", "n", "c">>

RECURSIVE ParamWords(_)
ParamWords(params) ==
    IF params = <<>> THEN <<>>
    ELSE <<Head(params)>>
           \o (IF Len(params) > 1 THEN << <<",">> >> ELSE <<>>)
           \o ParamWords(Tail(params))

BodyStatements ==
    {<< <<"a">> >>,
     << <<"a">>, <<"+">>, <<"b">> >>,
     <<KwLet, <<"x">>, <<"=">>, <<"1">> >>}

\* func f ( p1 , ... ) { s1 ... }
FuncText(params, body) ==
    Src(<<KwFunc, <<"f">>, <<"(">> >> \o ParamWords(params)
          \o << <<")">>, <<"{">> >> \o Flatten(body) \o << <<"}">> >>)

FuncTexts ==
    {FuncText(params, body) :
        params \in UNION {[1..n -> {<<"a">>, <<"b">>}] : n \in 0..MaxParams},
        body \in UNION {[1..n -> BodyStatements] : n \in 0..MaxBody}}

InitFunc == InitOf(FuncTexts)

SpecFunc == InitFunc /\ [][NextMain]_vars

\* the first parse returned one function declaration and no error
FunctionParsed ==
    /\ ~printed.had_error
    /\ printed.program.count = 1
    /\ printed.program.nodes[1].type = "AST_FUNCTION_STATEMENT"

\* C14: for every successfully parsed function declaration, printing it
\* and parsing the printed text again yields a function declaration with
\* the same name, the same parameters in order and the same body
\* statements in order, for bodies of any length.
FunctionRoundTrip == (Reparsed /\ FunctionParsed) => SameShapes

\* C14 for the declarations whose body has at most one statement
ShortFunctionRoundTrip ==
    (Reparsed /\ FunctionParsed
       /\ printed.program.nodes[1].body_count <= 1) => SameShapes

(***************************************************************************)
(* Arithmetic expressions with parentheses.                                *)
(***************************************************************************)
NumberWords == {<<"1">>, <<"2">>, <<"3">>}

OperatorWords == {<<"+">>, <<"-">>, <<"*">>, <<"/">>}

\* the expressions of exactly n words: a number, an expression in
\* parentheses, or two expressions around an operator
RECURSIVE ExprWords(_)
ExprWords(n) ==
    IF n < 1 THEN {}
    ELSE IF n = 1 THEN {<<w>> : w \in NumberWords}
    ELSE {<< <<"(">> >> \o e \o << <<")">> >> : e \in ExprWords(n - 2)}
           \cup UNION {{l \o <<o>> \o r :
                          l \in ExprWords(k), o \in OperatorWords,
                          r \in ExprWords(n - 1 - k)} : k \in 1..(n - 2)}

GroupTexts == {Src(ws) : ws \in UNION {ExprWords(n) : n \in 1..MaxExprWords}}

InitGroup == InitOf(GroupTexts)

SpecGroup == InitGroup /\ [][NextMain]_vars

\* the first parse returned one expression statement and no error
ExpressionParsed ==
    /\ ~printed.had_error
    /\ printed.program.count = 1
    /\ printed.program.nodes[1].type = "AST_EXPRESSION_STATEMENT"

\* every binary node below n is the expression of a grouping node
RECURSIVE FullyGrouped(_, _)
FullyGrouped(n, grouped) ==
    IF n = NULL THEN FALSE
    ELSE CASE n.type = "AST_BINARY" ->
                /\ grouped
                /\ FullyGrouped(n.left, FALSE)
                /\ FullyGrouped(n.right, FALSE)
           [] n.type = "AST_GROUPING" -> FullyGrouped(n.expression, TRUE)
           [] n.type = "AST_EXPRESSION_STATEMENT" ->
                FullyGrouped(n.expression, FALSE)
           [] OTHER -> n.type = "AST_LITERAL"

GroupedProduct == Src(<< <<"(">>, <<"1">>, <<"+">>, <<"2">>, <<")">>,
                         <<"*">>, <<"3">> >>)

\* the shape of ((1 + 2) * 3)
GroupedProductShape ==
    [type |-> "AST_EXPRESSION_STATEMENT",
     expression |->
       [type |-> "AST_BINARY", op |-> <<"*">>,
        left |-> [type |-> "AST_BINARY", op |-> <<"+">>,
                  left |-> [type |-> "AST_LITERAL", text |-> <<"1">>],
                  right |-> [type |-> "AST_LITERAL", text |-> <<"2">>]],
        right |-> [type |-> "AST_LITERAL", text |-> <<"3">>]]]

\* C15: for every expression built from numbers, + - * / and parentheses,
\* the printed parse is fully parenthesized text (every binary node of
\* its parse is the content of a grouping) that parses back to the same
\* operators and operands in the same nesting, groupings ignored; the
\* printed parse of (1 + 2) * 3 parses back to the shape of ((1 + 2) * 3).
GroupingRoundTrip ==
    (Reparsed /\ ExpressionParsed) =>
        /\ SameShapes
        /\ program.count = 1
        /\ FullyGrouped(program.nodes[1], FALSE)
        /\ (printed.source = GroupedProduct =>
              Shapes(program.nodes, source) = <<GroupedProductShape>>)

\* (1 + 2) * 3 has been parsed, printed and parsed again
GroupedProductReparsed ==
    /\ Reparsed
    /\ ExpressionParsed
    /\ printed.source = GroupedProduct
    /\ printed.program.nodes[1].expression.type = "AST_BINARY"
    /\ printed.program.nodes[1].expression.left.type = "AST_GROUPING"

(***************************************************************************)
(* Destroying the Program.                                                 *)
(***************************************************************************)
FreeVocab ==
    {<<"a">>, <<"1">>, <<"[">>, <<"]">>, <<".">>, <<"+">>, <<"|", ">">>,
     <<"t", "r", "u", "e">>}

InitFree == InitOf(Sources(FreeVocab, MaxFreeWords, SP))

SpecFree == InitFree /\ [][NextMain]_vars

\* the number of nodes reachable from n, n included
RECURSIVE CountNode(_)
RECURSIVE CountNodes(_)

CountNodes(ns) ==
    IF ns = <<>> THEN 0 ELSE CountNode(Head(ns)) + CountNodes(Tail(ns))

CountNode(n) ==
    IF n = NULL THEN 0
    ELSE 1 + CASE n.type \in {"AST_BINARY", "AST_PIPELINE"} ->
                    CountNode(n.left) + CountNode(n.right)
              [] n.type \in {"AST_GROUPING", "AST_EXPRESSION_STATEMENT"} ->
                    CountNode(n.expression)
              [] n.type \in {"AST_LET_STATEMENT",
                             "AST_LET_BANG_STATEMENT"} ->
                    CountNode(n.initializer)
              [] n.type = "AST_CALL" ->
                    CountNode(n.callee) + CountNodes(n.arguments)
              [] n.type \in {"AST_FUNCTION_STATEMENT",
                             "AST_LAMBDA_EXPRESSION"} -> CountNodes(n.body)
              [] n.type = "AST_MATCH_STATEMENT" ->
                    CountNode(n.value)
                      + CountNodes([i \in 1..Len(n.arms) |->
                                      n.arms[i].pattern])
                      + CountNodes([i \in 1..Len(n.arms) |->
                                      n.arms[i].expression])
              [] n.type = "AST_STRUCT_LITERAL" -> CountNodes(n.values)
              [] n.type = "AST_STRUCT_UPDATE" ->
                    CountNode(n.base) + CountNodes(n.values)
              [] n.type = "AST_LIST_LITERAL" -> CountNodes(n.elements)
              [] n.type = "AST_PROPERTY_ACCESS" -> CountNode(n.object)
              [] OTHER -> 0

\* C16: the step that destroys the Program releases every node reachable
\* from it, once each, whatever the kinds of the nodes, and leaves the
\* Program empty.
FreeReleasesEveryNode ==
    [][(pc = "printed" /\ pc' = "freed") =>
          /\ parser'.nfreed - parser.nfreed = CountNodes(program.nodes)
          /\ program'.count = 0]_vars

(***************************************************************************)
(* The scanner on arbitrary text.                                          *)
(***************************************************************************)
LexChars ==
    {<<"a">>, <<"1">>, <<" ">>, <<"\n">>, <<"&">>, <<"@">>, <<"\"">>,
     <<"/">>, <<"*">>, <<"\f">>, <<".">>}

InitLex == InitOf(Sources(LexChars, MaxLexChars, <<>>))

SpecLex == InitLex /\ [][Next]_vars

\* the terminator
End == Len(source) + 1

\* C17: every call of lexer_next made with the cursor before the
\* terminator leaves the cursor at least one character further and not
\* past the terminator (so the terminator is reached after at most
\* Len(source) calls); a token of the source then lies between the two
\* cursor positions, and an error token for an unexpected character
\* leaves the cursor right after that character; a call made at the
\* terminator returns end-of-input and leaves the cursor there.
ScannerProgress ==
    /\ [][(pc = "scan" /\ lexer.current < End) =>
            /\ lexer'.current > lexer.current
            /\ lexer'.current <= End
            /\ (tok'.type \notin {"ERROR", "EOF"} =>
                  /\ tok'.length >= 1
                  /\ tok'.start >= lexer.current
                  /\ tok'.start + tok'.length = lexer'.current)
            /\ (tok'.type = "ERROR" /\ tok'.msg = "Unexpected character."
                  => source[lexer'.current - 1] = "@")
            /\ (tok'.type = "ERROR" /\ tok'.msg = "Unexpected '&'."
                  => source[lexer'.current - 1] = "&")
            /\ (tok'.type = "EOF" => lexer'.current = End)]_vars
    /\ [][(pc = "scan" /\ lexer.current = End) =>
            (tok'.type = "EOF" /\ lexer'.current = End)]_vars
    /\ [](lexer.current \in 1..End)

\* the scanner has returned the identifier that follows an unexpected
\* character
ScannedPastError ==
    /\ pc = "scan"
    /\ source = <<"@", "a">>
    /\ tok.type = "IDENTIFIER"
    /\ tok.start = 2
    /\ lexer.current = End

(***************************************************************************)
(* Binding statements.                                                     *)
(***************************************************************************)
LetVocab == {KwLet, <<"!">>, <<"x">>, <<"=">>, <<"1">>}

InitLet == InitOf(Sources(LetVocab, MaxLetWords, SP))

SpecLet == InitLet /\ [][Next]_vars

\* the source begins with the word let
BeginsWithLet == SourceWords # <<>> /\ SourceWords[1].text = KwLet

\* 1 when the word after let is !, else 0
BangWords ==
    IF Len(SourceWords) >= 2 /\ SourceWords[2].text = <<"!">> THEN 1 ELSE 0

\* word i exists and is an identifier
IdentifierAt(i) == i <= Len(SourceWords) /\ SourceWords[i].text = <<"x">>

\* word i exists and is =
EqualAt(i) == i <= Len(SourceWords) /\ SourceWords[i].text = <<"=">>

\* word i exists and is a one-word operand
OperandAt(i) ==
    i <= Len(SourceWords) /\ SourceWords[i].text \in {<<"x">>, <<"1">>}

\* the source is let [!] name = operand, alone or before another let
IsBinding ==
    /\ BeginsWithLet
    /\ IdentifierAt(2 + BangWords)
    /\ EqualAt(3 + BangWords)
    /\ OperandAt(4 + BangWords)
    /\ \/ Len(SourceWords) = 4 + BangWords
       \/ SourceWords[5 + BangWords].text = KwLet

\* the node of the binding the source begins with
RefBinding ==
    [type |-> IF BangWords = 1 THEN "AST_LET_BANG_STATEMENT"
              ELSE "AST_LET_STATEMENT",
     name |-> WordToken(SourceWords[2 + BangWords], "IDENTIFIER"),
     initializer |-> WordNode(SourceWords[4 + BangWords])]

\* C18: the node of let [!] name = expr is a fallible binding exactly
\* when ! is the word after let, an ordinary binding otherwise, with the
\* identifier as target and the expression as initializer; when the
\* identifier or the = is missing the parse ends with the error flag set
\* and no node for the statement.
BangMarksFallibleBinding ==
    Done =>
      /\ IsBinding =>
            /\ program.count >= 1
            /\ program.nodes[1] = RefBinding
      /\ (BeginsWithLet /\ ~IdentifierAt(2 + BangWords)) =>
            (parser.had_error /\ program.count = 0)
      /\ (BeginsWithLet /\ IdentifierAt(2 + BangWords)
             /\ ~EqualAt(3 + BangWords)) =>
            (parser.had_error /\ program.count = 0)

\* let ! x = 1 has been parsed to a fallible binding
FallibleBindingParsed ==
    /\ Done
    /\ source = Src(<<KwLet, <<"!">>, <<"x">>, <<"=">>, <<"1">> >>)
    /\ program.count = 1
    /\ program.nodes[1].type = "AST_LET_BANG_STATEMENT"

(***************************************************************************)
(* Statements in blocks.                                                   *)
(***************************************************************************)
BlockPrefixes ==
    {<<>>,
     <<KwFunc, <<"f">>, <<"(">>, <<")">>, <<"{">> >>,
     << <<"f", "n">>, <<"(">>, <<")">>, <<"-", ">">>, <<"{">> >>}

BlockVocab == {<<"a">>, <<")">>, <<"+">>, KwLet, <<"=">>, <<"}">>}

BlockTexts ==
    {Src(pre \o ws) : pre \in BlockPrefixes,
                      ws \in WordSeqs(BlockVocab, MaxBlockWords)}

InitBlock == InitOf(BlockTexts)

SpecBlock == InitBlock /\ [][Next]_vars

\* C19: no call of parse_statement, from the loop of parse() or from the
\* loop of a block, starts with the error flag set.
NoStatementAfterError ==
    \A e \in parser.events : e.kind = "statement" => ~e.err

\* C19 for the loop of parse(): the iterations that call parse_statement
\* start with the error flag clear
NoTopLevelStatementAfterError ==
    [][(pc = "parse" /\ parser' # parser) => ~parser.had_error]_vars

(***************************************************************************)
(* What the scanner skips.                                                 *)
(***************************************************************************)
Blanks == {" ", "\t", "\r", "\n"}

\* the character at i can begin no token and is neither a blank nor the
\* beginning of a comment
BeginsNoToken(i) ==
    \/ source[i] = "@"
    \/ source[i] \in ControlChars
    \/ source[i] = "&" /\ CharAt(i + 1) # "&"

\* a call of lexer_next that finds the cursor at a character that begins
\* no token returns an error token for that character; the characters a
\* call passes over before a token of a source without comments are blanks
SkipsOnly(chars) ==
    (pc = "scan" /\ lexer.current < End
       /\ \A i \in 1..Len(source) : source[i] \in chars) =>
      /\ BeginsNoToken(lexer.current) =>
            /\ tok'.type = "ERROR"
            /\ lexer'.current = lexer.current + 1
      /\ (tok'.type \notin {"ERROR", "EOF"}
            /\ \A i \in 1..Len(source) : source[i] # "/") =>
            \A i \in lexer.current..(tok'.start - 1) :
               source[i] \in Blanks

\* the characters the sources are made of
AllChars == UNION {{w[i] : i \in 1..Len(w)} : w \in LexChars}

\* C20: the scanner passes over nothing but space, tab, carriage return,
\* newline and comments without a token; a lone &, a control character
\* and any other unrecognized character each yield an error token.
OnlyBlanksAndCommentsSkipped == [][SkipsOnly(AllChars)]_vars

\* C20 for the sources without control characters
PrintableOnlyBlanksSkipped == [][SkipsOnly(AllChars \ ControlChars)]_vars

(***************************************************************************)
(* Commas between match arms.                                              *)
(***************************************************************************)
\* the number of arms of a source of the form
\* match e { p1 -> r1 p2 -> r2 ... pk -> rk } with no comma, or -1
BareArmCount ==
    LET ws == SourceWords
        n == Len(ws)
        k == (n - 4) \div 3
    IN IF /\ n >= 4
          /\ n = 3 * k + 4
          /\ ws[1].text = KwMatch
          /\ ws[2].text \in MatchOperands
          /\ ws[3].text = <<"{">>
          /\ ws[n].text = <<"}">>
          /\ \A j \in 1..k :
                /\ ws[3 * j + 1].text \in MatchOperands
                /\ ws[3 * j + 2].text = <<"-", ">">>
                /\ ws[3 * j + 3].text \in MatchOperands
       THEN k ELSE -1

\* C21: two arms of a match statement with no comma between them set the
\* error flag.
MissingArmCommaIsError == (Done /\ BareArmCount >= 2) => parser.had_error

\* what the statement parses to when the commas are left out: the arms,
\* in order, and no error
BareArmsAccepted ==
    (Done /\ BareArmCount >= 2) =>
        /\ ~parser.had_error
        /\ program.count = 1
        /\ program.nodes[1].type = "AST_MATCH_STATEMENT"
        /\ program.nodes[1].arm_count = BareArmCount

(***************************************************************************)
(* The struct-update handler, called with a left operand when the token    *)
(* after the operator is the first token of the source.                    *)
(***************************************************************************)
UpdateVocab == {<<"(">>, <<"{">>, <<"a">>, <<"=">>, <<"1">>, <<"}">>}

UpdateTexts ==
    {StructText(<<>>, pairs) :
        pairs \in UNION {[1..n -> StructKeys \X StructValues] :
                           n \in 0..MaxPairs}}
      \cup Sources(UpdateVocab, MaxUpdateWords, SP)

InitUpdate == InitOf(UpdateTexts)

\* the left operand the handler is given: a variable parsed before
UpdateBase == [type |-> "AST_VARIABLE", name |-> NoToken]

\* led_struct_update(parser, left, previous) on a parser whose current
\* token is the first token of the source
StructUpdate ==
    /\ pc = "parse"
    /\ program.count = 0
    /\ parser = parser_init(lexer_init)
    /\ LET r == led_struct_update(parser, UpdateBase, NoToken) IN
         /\ parser' = r.p
         /\ program' = IF r.node = NULL THEN program
                       ELSE program_append(program, r.node)
    /\ pc' = "updated"
    /\ UNCHANGED <<source, lexer, tok, eofReads, printed>>

NextUpdate == Next \/ StructUpdate

SpecUpdate == InitUpdate /\ [][NextUpdate]_vars

\* the struct-update node of the pairs of a source { k1 = v1 , ... }
RefStructUpdate ==
    [type |-> "AST_STRUCT_UPDATE", base |-> UpdateBase,
     keys |-> RefStruct(0).keys, values |-> RefStruct(0).values,
     count |-> StructPairCount(0)]

StructUpdateKeepsPairs ==
    (pc = "updated" /\ StructPairCount(0) >= 0) =>
        (~parser.had_error /\ program.nodes = <<RefStructUpdate>>)

(***************************************************************************)
(* Calls with many arguments.                                              *)
(***************************************************************************)
\* f ( a , a , ... , a ) with n arguments: the characters by position
CallText(n) ==
    [k \in 1..(IF n = 0 THEN 5 ELSE 4 * n + 3) |->
        IF k = 1 THEN "f"
        ELSE IF k = 3 THEN "("
        ELSE IF k = (IF n = 0 THEN 5 ELSE 4 * n + 3) THEN ")"
        ELSE IF k > 4 /\ k % 4 = 1 THEN "a"
        ELSE IF k > 4 /\ k % 4 = 3 THEN ","
        ELSE " "]

\* the argument counts of the sources: few, and around the limit
CallArgCounts ==
    (0..MaxFewArgs) \cup ((MaxCallArgs - 1)..(MaxCallArgs + MaxExtraArgs))

InitCall == InitOf({CallText(n) : n \in CallArgCounts})

SpecCall == InitCall /\ [][Next]_vars

\* the number of arguments written in the source
WrittenArgs == IF Len(source) = 5 THEN 0 ELSE (Len(source) - 3) \div 4

\* the call node of the first n arguments of the source
RefCall(n) ==
    [type |-> "AST_CALL",
     callee |-> WordNode([start |-> 1, text |-> <<"f">>]),
     arguments |-> [i \in 1..n |->
                      WordNode([start |-> 4 * i + 1, text |-> <<"a">>])],
     arg_count |-> n]

\* C23: a call with at most 255 arguments parses without error to a call
\* node holding the arguments in source order; a call with more sets the
\* error flag; the call node built never holds more than 255 arguments.
CallArgumentsBounded ==
    Done =>
        /\ program.count = 1
        /\ program.nodes[1].type = "AST_EXPRESSION_STATEMENT"
        /\ program.nodes[1].expression.type = "AST_CALL"
        /\ program.nodes[1].expression.arg_count <= 255
        /\ Len(program.nodes[1].expression.arguments) <= 255
        /\ WrittenArgs <= 255 =>
              /\ ~parser.had_error
              /\ program.nodes[1].expression = RefCall(WrittenArgs)
        /\ WrittenArgs > 255 =>
              /\ parser.had_error
              /\ program.nodes[1].expression = RefCall(255)

\* a call with 255 arguments has been parsed
CallAtLimitParsed ==
    /\ Done
    /\ WrittenArgs = 255
    /\ program.count = 1
    /\ program.nodes[1].expression.arg_count = 255

(***************************************************************************)
(* End of input inside a body.                                             *)
(***************************************************************************)
\* the texts of the first n words of the source
FirstWords(n) == [i \in 1..n |-> SourceWords[i].text]

\* the source is pre followed by body words none of which is }
BodyLeftOpen(pre) ==
    /\ Len(SourceWords) >= Len(pre)
    /\ FirstWords(Len(pre)) = pre
    /\ \A i \in (Len(pre) + 1)..Len(SourceWords) :
          SourceWords[i].text # <<"}">>

FuncPrefix == <<KwFunc, <<"f">>, <<"(">>, <<")">>, <<"{">> >>

LambdaPrefix == << <<"f", "n">>, <<"(">>, <<")">>, <<"-", ">">>, <<"{">> >>

\* C24: when the input ends inside the body of a function declaration or
\* of a lambda, before its closing brace, the parse ends with the error
\* flag set and the Program holds no node for the declaration or lambda.
OpenBodyIsError ==
    (Done /\ (BodyLeftOpen(FuncPrefix) \/ BodyLeftOpen(LambdaPrefix))) =>
        (parser.had_error /\ program.count = 0)

\* C24 for the function bodies whose statements are complete when the
\* input ends
OpenBodyOfVariablesIsError ==
    (Done /\ BodyLeftOpen(FuncPrefix)
       /\ \A i \in 6..Len(SourceWords) : SourceWords[i].text = <<"a">>) =>
        (parser.had_error /\ program.count = 0)

(***************************************************************************)
(* Number tokens.                                                          *)
(***************************************************************************)
\* the end of the run of digits that starts at i: the first position from
\* i on that holds no digit
RunEnd(i) ==
    CHOOSE j \in i..End :
        CharAt(j) \notin Digits /\ \A k \in i..(j - 1) : CharAt(k) \in Digits

\* the end of the number that starts at i: its digits, and a dot with the
\* digits after it when a digit follows the dot
NumberEnd(i) ==
    IF CharAt(RunEnd(i)) = "." /\ CharAt(RunEnd(i) + 1) \in Digits
    THEN RunEnd(RunEnd(i) + 1)
    ELSE RunEnd(i)

\* C25: a number token covers the longest run of digits, and a dot with
\* the digits after it only when a digit follows the dot; a dot left
\* after a number is the next token, a DOT.
NumberTakesDotBeforeDigit ==
    /\ [][(pc = "scan" /\ tok'.type = "NUMBER") =>
            /\ CharAt(tok'.start) \in Digits
            /\ tok'.start + tok'.length = NumberEnd(tok'.start)
            /\ lexer'.current = NumberEnd(tok'.start)]_vars
    /\ [][(pc = "scan" /\ tok.type = "NUMBER"
             /\ CharAt(lexer.current) = ".") =>
            /\ tok'.type = "DOT"
            /\ tok'.start = lexer.current]_vars
    /\ [](pc = "scan" /\ source = <<"1", ".", "1">> /\ tok.type # "NONE"
            => (tok.type = "EOF"
                  \/ (tok.type = "NUMBER" /\ tok.start = 1
                        /\ tok.length = 3)))

\* 1. has been scanned to a NUMBER and then a DOT
DotAfterNumberScanned ==
    /\ pc = "scan"
    /\ source = <<"1", ".">>
    /\ tok.type = "DOT"
    /\ tok.start = 2

(***************************************************************************)
(* Comments.                                                               *)
(***************************************************************************)
\* a comment of the given kind ("/" or "*") begins at the cursor
CommentAt(kind) ==
    /\ pc = "scan"
    /\ CharAt(lexer.current) = "/"
    /\ CharAt(lexer.current + 1) = kind

\* the end of the line of the comment that begins at i: the position of
\* the first newline after its two slashes, or the terminator
LineCommentEnd(i) ==
    CHOOSE j \in (i + 2)..End :
        /\ (j = End \/ source[j] = "\n")
        /\ \A k \in (i + 2)..(j - 1) : source[k] # "\n"

\* a closing marker begins at j
ClosesAt(j) == CharAt(j) = "*" /\ CharAt(j + 1) = "/"

\* the block comment that begins at i is closed
Closed(i) == \E j \in (i + 2)..End : ClosesAt(j)

\* the position after the first closing marker that begins after the
\* opening marker at i, or the terminator when there is none
BlockCommentEnd(i) ==
    IF Closed(i)
    THEN 2 + CHOOSE j \in (i + 2)..End :
                 ClosesAt(j) /\ \A k \in (i + 2)..(j - 1) : ~ClosesAt(k)
    ELSE End

\* the call returns what a call with the cursor at j returns, and no
\* token from before j
ResumesAt(j) ==
    LET r == lexer_next([start |-> j, current |-> j, line |-> 1]) IN
    /\ tok'.type = r.tok.type
    /\ tok'.start = r.tok.start
    /\ tok'.length = r.tok.length
    /\ lexer'.current = r.lx.current
    /\ tok'.type \notin {"ERROR", "EOF"} => tok'.start >= j

\* C26: a call of lexer_next that finds // at the cursor returns the
\* first token after the end of that line; one that finds /* returns the
\* first token after the first */ that follows, and the end-of-input
\* token, with the cursor at the terminator, when none follows.
CommentsYieldNoToken ==
    /\ [][CommentAt("/") => ResumesAt(LineCommentEnd(lexer.current))]_vars
    /\ [][CommentAt("*") => ResumesAt(BlockCommentEnd(lexer.current))]_vars
    /\ [][(CommentAt("*") /\ ~Closed(lexer.current)) =>
            (tok'.type = "EOF" /\ lexer'.current = End)]_vars

\* a line comment and the newline that ends it have been scanned
CommentLineScanned ==
    /\ pc = "scan"
    /\ source = <<"/", "/", "a", "\n">>
    /\ tok.type = "EOF"
    /\ lexer.line = 2

(***************************************************************************)
(* The line counter.                                                       *)
(***************************************************************************)
\* the number of newline characters before position i
NewlinesBefore(i) ==
    Cardinality({k \in 1..(i - 1) : source[k] = "\n"})

\* the counter of lx is 1 plus the newlines its cursor has passed
LineCounted(lx) == lx.line = 1 + NewlinesBefore(lx.current)

\* C27: in every state of the scanner, driven directly or by the parser,
\* the line counter is 1 plus the number of newline characters before the
\* cursor, and the token just returned holds the value of the counter.
LineCounterCountsNewlines ==
    /\ pc = "scan" =>
          /\ LineCounted(lexer)
          /\ tok.type # "NONE" => tok.line = lexer.line
    /\ pc \in {"parse", "done"} =>
          /\ LineCounted(parser.lexer)
          /\ parser.current.line = parser.lexer.line

\* a string with a newline in it has been scanned
TwoLineStringScanned ==
    /\ pc = "scan"
    /\ source = <<"\"", "\n", "\"">>
    /\ tok.type = "STRING"
    /\ tok.line = 2

(***************************************************************************)
(* Termination of parse().                                                 *)
(***************************************************************************)
GroupVocab == {<<"(">>, <<")">>, <<"a">>, <<"+">>, <<".">>}

InitTerm ==
    InitOf(FuncTexts \cup MatchTexts \cup StructTexts \cup BlockTexts
             \cup Sources(DelimVocab, MaxDelimWords, SP)
             \cup Sources(ErrVocab, MaxWords, SP)
             \cup Sources(GroupVocab, MaxWords, SP))

SpecTerm == InitTerm /\ [][Next]_vars

\* the kinds of token that have a binding power above 0
InfixTypes ==
    {"PIPELINE", "PLUS", "MINUS", "STAR", "SLASH", "LPAREN", "DOT", "LARROW"}

\* C28: every iteration of the loop of parse() returns or leaves less to
\* read; no loop of the parser enters its body twice at the same token;
\* the loop of parse_expression enters its body only at a token of binding
\* power above 0, never at end-of-input.
ParseTerminates ==
    /\ [][pc = "parse" =>
            (pc' = "done" \/ Unread(parser') < Unread(parser))]_vars
    /\ [](\A e \in parser.events : e.kind # "stalled")
    /\ [](\A it \in parser.iterations :
            it.fn = "parse_expression" => it.tok \in InfixTypes)

\* a parse that went through a parameter list, a block and an expression
\* loop has returned
LoopsRun ==
    /\ Done
    /\ ~parser.had_error
    /\ {"parse_parameter_list", "parse_block", "parse_expression"}
          \subseteq {it.fn : it \in parser.iterations}

(***************************************************************************)
(* Allocation and release over a whole run of main.                        *)
(***************************************************************************)
SpecLeak == InitBlock /\ [][NextMain]_vars

\* C29: after parse(), successful or failed, and parser_free_ast on the
\* Program it returned, every node allocated during the parse has been
\* freed: the number of nodes released equals the number allocated.
AllocatedNodesFreed ==
    pc = "freed" => parser.nfreed = parser.nalloc

\* C29, the second half: no more nodes are released than were allocated
NoNodeFreedTwice ==
    pc = "freed" => parser.nfreed <= parser.nalloc

\* C29 for the parses that set no error flag, over these texts
ParsedNodesFreed ==
    (pc = "freed" /\ ~parser.had_error) => parser.nfreed = parser.nalloc

(***************************************************************************)
(* Grouping.                                                               *)
(***************************************************************************)
\* C30: every call of parse_grouping, once its sub-expression is parsed,
\* either finds `)`, consumes it and returns a grouping node that wraps the
\* sub-expression, or finds another token, sets the error flag, releases
\* every node of the sub-expression and returns the absent result.
GroupingRequiresParen ==
    \A g \in parser.groupings :
        IF g.closed
        THEN ~g.null /\ g.wraps /\ g.consumed /\ g.released = 0
        ELSE g.err /\ g.null /\ g.released = CountNode(g.sub)

\* C30 with the release as free_node performs it: what the failing call
\* releases is what free_node releases of the sub-expression
GroupingCallsFreeNode ==
    \A g \in parser.groupings :
        IF g.closed
        THEN ~g.null /\ g.wraps /\ g.consumed /\ g.released = 0
        ELSE g.err /\ g.null /\ g.released = free_node(g.sub)

\* a call of parse_grouping failed on a sub-expression of several nodes
GroupingLeftOpen ==
    Done /\ \E g \in parser.groupings : ~g.closed /\ CountNode(g.sub) > 1

====
